---- MODULE Spec2Model ----
(***************************************************************************)
(* M31-Agent: the inline completion orchestrator (CompletionService),      *)
(* its result cache, the AgentService session envelope and the             *)
(* TelemetryService batching pipeline.                                     *)
(*                                                                         *)
(* Strings are sequences of one-character strings.  An Optional<string>    *)
(* is a record [some, val]; `undefined` is None.                           *)
(***************************************************************************)
EXTENDS Integers, Sequences, FiniteSets, TLC

VARIABLES
    now,              \* Date.now()
    autoComplete,     \* configuration m31-agents.autoComplete
    isEnabled,        \* TelemetryService.isEnabled
    completionCache,  \* CompletionService.completionCache, in Map insertion order
    pendingEvents,    \* TelemetryService.pendingEvents
    delivered,        \* the batches flush handed to the sink, oldest first
    lastFlush,        \* what the most recent flush() call did, and how many
                      \* flush() calls took a snapshot so far
    activeSessions,   \* AgentService.activeSessions, sessionId -> record
    ops,              \* the operations started so far, by operation id
    netCalls,         \* the calls made on ApiClient so far, oldest first
    tracked,          \* every event pendingEvents ever accepted, oldest first
    tracks,           \* how many direct trackEvent calls were made
    ret,              \* the most recent direct cache call and what it returned
    ticks,            \* how often the clock has moved
    configModel,      \* configuration m31-agents.model
    selectedModel,    \* AgentService.selectedModel
    modelChanges,        \* the changes of the model asked for so far
    disposables,      \* AgentService.disposables: the subscription of the
                      \* constructor's configuration listener until dispose()
    built,            \* the most recent direct buildCompletionRequest call
    apiSession,       \* the replacements of ApiClient.sessionId by a new uuid so
                      \* far, each as the number of events accepted before it
    flushInterval,    \* TelemetryService.flushInterval: TRUE while the timer is armed
    shutdown,         \* the most recent shutdown call, how many there were, and
                      \* whether dispose() was among them
    timerFired,       \* whether the interval callback ran since the last dispose()
    diagnosticProvider,  \* the DiagnosticProvider, the timers it has armed and its
                         \* diagnostic collection
    providerManager   \* the ProviderManager, the settings it reads and the
                      \* providers registered with the editor

vars == <<now, autoComplete, isEnabled, completionCache, pendingEvents, delivered,
          lastFlush, activeSessions, ops, netCalls, tracked, tracks, ret, ticks,
          configModel, selectedModel, modelChanges, disposables, built, apiSession,
          flushInterval, shutdown, timerFired, diagnosticProvider, providerManager>>

\* the providers of the editor integration
editorVars == <<diagnosticProvider, providerManager>>

\* the API session, the flush timer and the shutdown record
lifecycleVars == <<apiSession, flushInterval, shutdown, timerFired>>

\* the model selection and the request builder's record
modelVars == <<configModel, selectedModel, modelChanges, disposables, built>>

----------------------------------------------------------------------------
(* Program constants *)

CACHE_TTL_MS == 60000

CACHE_MAX_ENTRIES == 100

CACHE_EVICT_COUNT == 20

EVENTS_BATCH_SIZE == 20

CONTEXT_KEY_CHARS == 50

LINES_CONTEXT_BEFORE == 10

LINES_CONTEXT_AFTER == 5

(* Bounds of the model *)

MaxOps == 2

MaxTicks == 2

MaxOpTicks == 1

MaxCacheCalls == 2

MaxTracks == 2

StartTime == 200

MaxContextLines == 2

MaxBuilds == 1

MaxModelChanges == 2

MaxShutdowns == 1

MaxApiSessions == 1

----------------------------------------------------------------------------
(* Values *)

None == [some |-> FALSE, val |-> <<>>]

Some(s) == [some |-> TRUE, val |-> s]

\* JavaScript truthiness of a `string | undefined`: undefined and "" are falsy
Truthy(opt) == opt.some /\ opt.val # <<>>

Min(a, b) == IF a < b THEN a ELSE b

Max(a, b) == IF a > b THEN a ELSE b

\* String.prototype.substring(0, n)
Substring0(s, n) == SubSeq(s, 1, Min(Max(n, 0), Len(s)))

\* the characters String.prototype.trim strips: WhiteSpace and LineTerminator
\* of ECMAScript; the ones outside ASCII are written by their code points
WhiteSpace ==
    {" ", "\t", "\n", "\r", "\f", "U+000B", "U+00A0", "U+1680", "U+2000", "U+2001",
     "U+2002", "U+2003", "U+2004", "U+2005", "U+2006", "U+2007", "U+2008", "U+2009",
     "U+200A", "U+2028", "U+2029", "U+202F", "U+205F", "U+3000", "U+FEFF"}

\* !s.trim(): the string is empty or whitespace only
IsBlank(s) == \A i \in 1..Len(s) : s[i] \in WhiteSpace

\* Map.prototype.set and Map.prototype.delete on a map held as a function
MapSet(m, k, v) == [x \in DOMAIN m \cup {k} |-> IF x = k THEN v ELSE m[x]]

MapDelete(m, k) == [x \in DOMAIN m \ {k} |-> m[x]]

----------------------------------------------------------------------------
(* ResultCache: CompletionService.completionCache *)

CacheHas(cache, key) == \E i \in 1..Len(cache) : cache[i].key = key

CacheIndex(cache, key) == CHOOSE i \in 1..Len(cache) : cache[i].key = key

\* Map.prototype.delete
CacheDelete(cache, key) ==
    IF CacheHas(cache, key)
    THEN LET i == CacheIndex(cache, key)
         IN  SubSeq(cache, 1, i - 1) \o SubSeq(cache, i + 1, Len(cache))
    ELSE cache

\* a set that adds an entry whether or not the key is there
CacheSet_AlwaysAppend(cache, key, entry) == Append(cache, entry)

\* Map.prototype.set: an existing key keeps its place in the iteration order
CacheSet(cache, key, entry) ==
    IF CacheHas(cache, key)
    THEN [cache EXCEPT ![CacheIndex(cache, key)] = entry]
    ELSE Append(cache, entry)

\* getFromCache with the age test off by one (<= for <)
getFromCache_InclusiveTtl(cache, key, clock) ==
    IF CacheHas(cache, key)
    THEN LET cached == cache[CacheIndex(cache, key)]
         IN  IF clock - cached.timestamp <= CACHE_TTL_MS
             THEN [value |-> Some(cached.result), cache |-> cache]
             ELSE [value |-> None, cache |-> CacheDelete(cache, key)]
    ELSE [value |-> None, cache |-> cache]

\* getFromCache: [value, cache] - the value returned and the cache afterwards
getFromCache(cache, key, clock) ==
    IF CacheHas(cache, key)
    THEN LET cached == cache[CacheIndex(cache, key)]
         IN  IF clock - cached.timestamp < CACHE_TTL_MS
             THEN [value |-> Some(cached.result), cache |-> cache]
             ELSE [value |-> None, cache |-> CacheDelete(cache, key)]
    ELSE [value |-> None, cache |-> cache]

\* Array.prototype.sort((a, b) => a[1].timestamp - b[1].timestamp) is stable:
\* the entry at place i of the Map's iteration order lands behind every entry
\* with a smaller timestamp and every earlier entry with the same timestamp.
\* SortRank is the 0-based index the sort gives entry i.
SortRank(entries, i) ==
    Cardinality({j \in 1..Len(entries) :
                    \/ entries[j].timestamp < entries[i].timestamp
                    \/ entries[j].timestamp = entries[i].timestamp /\ j < i})

\* KeysToDelete without the sort: the first 20 keys in insertion order
KeysToDelete_InsertionOrder(cache) ==
    {cache[i].key : i \in 1..Min(CACHE_EVICT_COUNT, Len(cache))}

\* [...entries()].sort(...).slice(0, 20).map(([key]) => key)
KeysToDelete(cache) ==
    {cache[i].key : i \in {j \in 1..Len(cache) : SortRank(cache, j) < CACHE_EVICT_COUNT}}

\* keysToDelete.forEach(key => this.completionCache.delete(key))
DeleteKeys(cache, keys) == SelectSeq(cache, LAMBDA e : e.key \notin keys)

\* addToCache with the size test off by one: cleans up above 101 entries
addToCache_LateCleanup(cache, key, result, clock) ==
    LET stored == CacheSet(cache, key,
                           [key |-> key, result |-> result, timestamp |-> clock])
    IN  IF Len(stored) > CACHE_MAX_ENTRIES + 1
        THEN DeleteKeys(stored, KeysToDelete(stored))
        ELSE stored

\* addToCache: the cache afterwards
addToCache(cache, key, result, clock) ==
    LET stored == CacheSet(cache, key,
                           [key |-> key, result |-> result, timestamp |-> clock])
    IN  IF Len(stored) > CACHE_MAX_ENTRIES
        THEN DeleteKeys(stored, KeysToDelete(stored))
        ELSE stored

\* getCacheKey: `${language}:${prefix}:${context.substring(0, 50)}`
getCacheKey(language, prefix, context) ==
    language \o <<":">> \o prefix \o <<":">> \o Substring0(context, CONTEXT_KEY_CHARS)

----------------------------------------------------------------------------
(* TelemetryBatcher: TelemetryService *)

\* An event is a record [type, timestamp, sessionId, extensionVersion, success,
\* fromCache, tokensUsed, duration, feature, op, seq].  `op` and `seq` are not
\* fields of the program's events: op names the operation that emitted the
\* event (0: none), seq numbers the accepted events in the order of their push.

TelemetrySessionId == "telemetry-uuid"

\* the uuids ApiClient draws: the constructor's, then one per createNewSession
ApiSessionIds == <<"api-uuid-0", "api-uuid-1", "api-uuid-2", "api-uuid-3">>

\* ApiClient.getSessionId()
ApiSessionId == ApiSessionIds[Len(apiSession) + 1]

ExtensionVersion == "0.1.0"

\* What the output channel of the Logger does during a call of trackEvent or
\* flush (log level debug): the lines of telemetryService.ts whose logger
\* call throws because appendLine throws.  98 is the logger.debug of
\* trackEvent, 167 the logger.debug of flush, 177 the logger.error of the
\* catch block of flush.  {} is a channel that works, {98, 167, 177} one that
\* throws on every line.
Channels == SUBSET {98, 167, 177}

\* The telemetry state the methods below read and write
Tel == [pendingEvents |-> pendingEvents, delivered |-> delivered,
        lastFlush |-> lastFlush, tracked |-> tracked]

\* flush that forgets to clear the buffer after taking the snapshot
flush_KeepBuffer(tel, enabled, channel) ==
    IF ~enabled \/ Len(tel.pendingEvents) = 0
    THEN [tel EXCEPT !.lastFlush.outcome = "skipped", !.lastFlush.settled = "resolved"]
    ELSE [tel EXCEPT !.delivered = Append(tel.delivered, tel.pendingEvents),
                     !.lastFlush = [outcome |-> "sent", n |-> tel.lastFlush.n + 1,
                                    settled |-> "resolved"]]

\* flush that clears the buffer first and takes its snapshot afterwards
flush_LateSnapshot(tel, enabled, channel) ==
    IF ~enabled \/ Len(tel.pendingEvents) = 0
    THEN [tel EXCEPT !.lastFlush.outcome = "skipped", !.lastFlush.settled = "resolved"]
    ELSE LET cleared == [tel EXCEPT !.pendingEvents = <<>>,
                                    !.lastFlush = [outcome |-> "sent",
                                                   n |-> tel.lastFlush.n + 1,
                                                   settled |-> "resolved"]]
             eventsToSend == cleared.pendingEvents
         IN  IF 167 \notin channel
             THEN [cleared EXCEPT !.delivered = Append(tel.delivered, eventsToSend)]
             ELSE [cleared EXCEPT !.lastFlush.outcome = "failed"]

\* the catch block of flush (lines 176-180), entered with the buffer already
\* cleared: logger.error writes to the output channel first; when that throws
\* too the error leaves the catch block and the promise rejects, otherwise
\* the block assigns [...this.pendingEvents] and the promise resolves
flushCatch(cleared, channel) ==
    IF 177 \in channel
    THEN [cleared EXCEPT !.lastFlush.outcome = "failed", !.lastFlush.settled = "rejected"]
    ELSE [cleared EXCEPT !.pendingEvents = cleared.pendingEvents,
                         !.lastFlush.outcome = "failed", !.lastFlush.settled = "resolved"]

\* flush without the test of isEnabled (line 157)
flush_IgnoresDisabled(tel, enabled, channel) ==
    IF Len(tel.pendingEvents) = 0
    THEN [tel EXCEPT !.lastFlush.outcome = "skipped", !.lastFlush.settled = "resolved"]
    ELSE LET eventsToSend == tel.pendingEvents
             cleared == [tel EXCEPT !.pendingEvents = <<>>,
                                    !.lastFlush = [outcome |-> "sent",
                                                   n |-> tel.lastFlush.n + 1,
                                                   settled |-> "resolved"]]
         IN  IF 167 \notin channel
             THEN [cleared EXCEPT !.delivered = Append(tel.delivered, eventsToSend)]
             ELSE flushCatch(cleared, channel)

\* flush(): no await inside, so the whole body runs in one step.  The
\* delivery step (line 167) returns when the channel takes its line; when it
\* throws, the catch block runs on the buffer cleared above.
flush(tel, enabled, channel) ==
    IF ~enabled \/ Len(tel.pendingEvents) = 0
    THEN [tel EXCEPT !.lastFlush.outcome = "skipped", !.lastFlush.settled = "resolved"]
    ELSE LET eventsToSend == tel.pendingEvents
             cleared == [tel EXCEPT !.pendingEvents = <<>>,
                                    !.lastFlush = [outcome |-> "sent",
                                                   n |-> tel.lastFlush.n + 1,
                                                   settled |-> "resolved"]]
         IN  IF 167 \notin channel
             THEN [cleared EXCEPT !.delivered = Append(tel.delivered, eventsToSend)]
             ELSE flushCatch(cleared, channel)

\* the enrichment of trackEvent that keeps the sessionId of the caller
Enrich_CallerSession(event, clock) ==
    [event EXCEPT !.timestamp = IF event.timestamp # 0 THEN event.timestamp ELSE clock,
                  !.extensionVersion = ExtensionVersion]

\* the enrichment of trackEvent: timestamp: event.timestamp || Date.now()
Enrich(event, clock) ==
    [event EXCEPT !.timestamp = IF event.timestamp # 0 THEN event.timestamp ELSE clock,
                  !.sessionId = TelemetrySessionId,
                  !.extensionVersion = ExtensionVersion]

\* this.pendingEvents.push(enrichedEvent)
Push(tel, enrichedEvent) ==
    LET accepted == [enrichedEvent EXCEPT !.seq = Len(tel.tracked) + 1]
    IN  [tel EXCEPT !.pendingEvents = Append(tel.pendingEvents, accepted),
                    !.tracked = Append(tel.tracked, accepted)]

\* trackEvent without the size-triggered flush of lines 102-106
trackEvent_NoSizeFlush(tel, enabled, event, clock, channel) ==
    IF ~enabled \/ 98 \in channel THEN tel ELSE Push(tel, Enrich(event, clock))

\* trackEvent with the batch test off by one (> for >=)
trackEvent_LateBatch(tel, enabled, event, clock, channel) ==
    IF ~enabled \/ 98 \in channel THEN tel
    ELSE LET enrichedEvent == Enrich(event, clock)
             pushed == Push(tel, enrichedEvent)
         IN  IF Len(pushed.pendingEvents) > EVENTS_BATCH_SIZE
             THEN flush(pushed, enabled, channel)
             ELSE pushed

\* trackEvent without the test of isEnabled (lines 81-83)
trackEvent_IgnoresDisabled(tel, enabled, event, clock, channel) ==
    LET enrichedEvent == Enrich(event, clock)
        pushed == Push(tel, enrichedEvent)
    IN  IF 98 \in channel THEN tel
        ELSE IF Len(pushed.pendingEvents) >= EVENTS_BATCH_SIZE
             THEN flush(pushed, enabled, channel)
             ELSE pushed

\* trackEvent(event): the telemetry state after the call.  When the
\* logger.debug of line 98 throws, the call throws with nothing pushed and
\* the size test not reached: the state is as before.  A caller that goes on
\* after trackEvent tests the same condition (enabled /\ 98 \in channel) to
\* know that the call threw.
trackEvent(tel, enabled, event, clock, channel) ==
    IF ~enabled THEN tel
    ELSE IF 98 \in channel THEN tel
    ELSE LET enrichedEvent == Enrich(event, clock)
             pushed == Push(tel, enrichedEvent)
         IN  IF Len(pushed.pendingEvents) >= EVENTS_BATCH_SIZE
             THEN flush(pushed, enabled, channel)
             ELSE pushed

Event(type, clock, op) ==
    [type |-> type, timestamp |-> clock, sessionId |-> ApiSessionId,
     extensionVersion |-> "", success |-> TRUE, fromCache |-> FALSE,
     tokensUsed |-> 0, duration |-> 0, feature |-> "", modelId |-> "", op |-> op,
     seq |-> 0]

\* an event one of TelemetryService's own helpers builds: sessionId: this.sessionId
OwnEvent(type, clock) == [Event(type, clock, 0) EXCEPT !.sessionId = TelemetrySessionId]

\* the event trackCompletionEvent builds
CompletionEvent(clock, duration, success, fromCache, tokensUsed, modelId, op) ==
    [Event("code_completed", clock, op) EXCEPT
        !.success = success, !.fromCache = fromCache,
        !.tokensUsed = tokensUsed, !.duration = duration, !.modelId = modelId]

\* the event endSession builds
FeatureEvent(clock, capability, success, duration, modelId, op) ==
    [Event("feature_used", clock, op) EXCEPT
        !.feature = capability, !.success = success, !.duration = duration,
        !.modelId = modelId]

\* trackException(error, componentName, severity)
trackException(tel, enabled, clock, channel) ==
    IF ~enabled THEN tel
    ELSE trackEvent(tel, enabled, OwnEvent("error_occurred", clock), clock, channel)

\* trackMetric(name, value)
trackMetric(tel, enabled, clock, channel) ==
    IF ~enabled THEN tel
    ELSE trackEvent(tel, enabled, OwnEvent("performance_metric", clock), clock, channel)

\* trackCommand(command, duration, success): no test of its own
trackCommand(tel, enabled, clock, channel) ==
    trackEvent(tel, enabled, OwnEvent("command_executed", clock), clock, channel)

\* trackExtensionActivation(isNewInstall): no test of its own
trackExtensionActivation(tel, enabled, clock, channel) ==
    trackEvent(tel, enabled, OwnEvent("extension_activated", clock), clock, channel)

\* trackApiEvent(endpoint, method, statusCode, duration, success): no test of
\* its own
trackApiEvent(tel, enabled, clock, duration, success, channel) ==
    trackEvent(tel, enabled,
               [OwnEvent("api_request", clock) EXCEPT
                   !.duration = duration, !.success = success],
               clock, channel)

\* pendingEvents as earlier operations leave it: n events, one per millisecond
PrefilledEvents(n) ==
    [i \in 1..n |-> [Enrich(OwnEvent("command_executed", StartTime - n + i), StartTime)
                        EXCEPT !.seq = i]]

----------------------------------------------------------------------------
(* A cache as earlier completion requests leave it: n entries for the keys  *)
(* of n one-line documents "1", "2", ... in language "js", stored at the    *)
(* times the pattern gives (none later than StartTime).                     *)

Digit(d) == <<"0", "1", "2", "3", "4", "5", "6", "7", "8", "9">>[d + 1]

RECURSIVE Digits(_)
Digits(n) == IF n < 10 THEN <<Digit(n)>> ELSE Digits(n \div 10) \o <<Digit(n % 10)>>

JS == <<"j", "s">>

PY == <<"p", "y">>

PrefillKey(i) == getCacheKey(JS, Digits(i), <<>>)

PrefillPatterns == {"rising", "same", "restored"}

\* "rising": one store per millisecond; "same": all stored within one
\* millisecond; "restored": the first 30 keys were stored again later on
PrefillTimestamp(pattern, n, i) ==
    CASE pattern = "rising" -> StartTime - n + i
      [] pattern = "same" -> StartTime
      [] pattern = "restored" -> IF i <= 30 THEN StartTime - (i % 3)
                                 ELSE StartTime - n - 3 + i

PrefilledCache(pattern, n) ==
    [i \in 1..n |-> [key |-> PrefillKey(i), result |-> <<"r">>,
                     timestamp |-> PrefillTimestamp(pattern, n, i)]]

PrefilledCaches ==
    {<<>>} \cup {PrefilledCache(p, n) :
                    p \in PrefillPatterns,
                    n \in {CACHE_MAX_ENTRIES - 1, CACHE_MAX_ENTRIES}}

ClockSteps == {1, CACHE_TTL_MS - 1}

NoFlush == [outcome |-> "none", n |-> 0, settled |-> "none"]

NoShutdown == [op |-> "none", n |-> 0, disposed |-> FALSE]

\* the ApiClient constructor draws the first uuid; the TelemetryService
\* constructor arms the flush timer (setupFlushInterval)
InitLifecycle ==
    /\ apiSession = <<>>
    /\ flushInterval = TRUE
    /\ shutdown = NoShutdown
    /\ timerFired = FALSE

NoRet == [op |-> "none", key |-> <<>>, value |-> None, existed |-> FALSE, n |-> 0]

NoBuilt == [n |-> 0]

\* AIModelType.STANDARD is the default of m31-agents.model; the AgentService
\* constructor copies the configured model into selectedModel
InitModel ==
    /\ configModel = "standard"
    /\ selectedModel = configModel
    /\ modelChanges = <<>>
    /\ disposables = <<"configListener">>
    /\ built = NoBuilt

----------------------------------------------------------------------------
(* DiagnosticProvider *)

\* A document is [uri, scheme, languageId, length, blank, findings]: length is
\* getText().length, blank is getText().trim().length === 0, findings is the
\* number of matches the null-reference scan of analyzeDiagnostics flags
\* (lines 171-200).
Document(uri, scheme, languageId, length, blank, findings) ==
    [uri |-> uri, scheme |-> scheme, languageId |-> languageId, length |-> length,
     blank |-> blank, findings |-> findings]

SUPPORTED_LANGUAGES ==
    {"typescript", "javascript", "python", "rust", "go", "java", "c", "cpp", "csharp"}

MAX_ANALYZED_LENGTH == 100000

isSupportedLanguage(languageId) == languageId \in SUPPORTED_LANGUAGES

shouldAnalyzeDocument(document) ==
    /\ isSupportedLanguage(document.languageId)
    /\ ~(document.length > MAX_ANALYZED_LENGTH)
    /\ document.scheme = "file"

\* the diagnostics analyzeDiagnostics builds for a document that is not blank
DiagnosticsOf(document) ==
    IF document.languageId \in {"typescript", "javascript", "typescriptreact",
                                 "javascriptreact"}
    THEN [i \in 1..document.findings |-> "potential-null-ref"]
    ELSE <<>>

\* analyzeDiagnostics: the diagnostic collection after it
analyzeDiagnostics(collection, document) ==
    IF document.blank
    THEN MapDelete(collection, document.uri)
    ELSE MapSet(collection, document.uri, DiagnosticsOf(document))

\* clearTimeout(id) on the timers armed
ClearTimeout(timers, id) == {t \in timers : t.id # id}

\* The provider is [documentTimers, pendingDiagnostics, timers, documents,
\* opened, collection, nextTimer, events, closed, ran, disposed]: the two maps
\* uri -> timer id; the timers setTimeout has armed and that neither fired
\* nor were cleared, each [id, uri, object] where object is the TextDocument
\* the callback captured (lines 139-144); the TextDocument objects the
\* provider was handed so far, in the order it first saw them, each as it
\* reads now (a closed one keeps its last text); the map uri -> object of the
\* documents open in the editor; the diagnostic collection uri ->
\* diagnostics; the id the next setTimeout returns; the number of editor
\* events so far; the uris closed and not opened or changed since; the
\* analyses run so far (each [uri, closed]); whether dispose() ran.
NoDiagnosticProvider ==
    [documentTimers |-> <<>>, pendingDiagnostics |-> <<>>, timers |-> {},
     documents |-> <<>>, opened |-> <<>>, collection |-> <<>>, nextTimer |-> 1,
     events |-> 0, closed |-> {}, ran |-> <<>>, disposed |-> FALSE]

\* scheduleDiagnostics(document) for the TextDocument object
scheduleDiagnostics(dp, object) ==
    LET document == dp.documents[object]
    IN  IF ~shouldAnalyzeDocument(document)
        THEN dp
        ELSE LET uri == document.uri
                 cleared == IF uri \in DOMAIN dp.documentTimers
                            THEN ClearTimeout(dp.timers, dp.documentTimers[uri])
                            ELSE dp.timers
             IN  [dp EXCEPT
                    !.timers = cleared \cup {[id |-> dp.nextTimer, uri |-> uri,
                                              object |-> object]},
                    !.documentTimers = MapSet(dp.documentTimers, uri, dp.nextTimer),
                    !.nextTimer = dp.nextTimer + 1]

\* onDocumentChange and onDocumentOpen for the TextDocument object; enabled
\* is isDiagnosticsEnabled()
onDocumentChange(dp, enabled, object) ==
    LET document == dp.documents[object]
    IN  IF ~enabled
        THEN dp
        ELSE IF document.scheme # "file" \/ ~isSupportedLanguage(document.languageId)
             THEN dp
             ELSE scheduleDiagnostics(dp, object)

onDocumentClose(dp, document) ==
    LET uri == document.uri
        pending == IF uri \in DOMAIN dp.pendingDiagnostics
                   THEN [dp EXCEPT
                           !.timers = ClearTimeout(dp.timers, dp.pendingDiagnostics[uri]),
                           !.pendingDiagnostics = MapDelete(dp.pendingDiagnostics, uri)]
                   ELSE dp
    IN  [pending EXCEPT !.collection = MapDelete(pending.collection, uri)]

\* the callback of the timer t (lines 139-144): analyzeDiagnostics reads the
\* TextDocument the closure captured when the timer was armed, as that
\* object reads when the timer fires.  Once the collection is disposed the
\* editor either refuses its set and delete calls (they throw, and the
\* rejection ends in the catch handler of line 140) or still takes them:
\* takes is which.
timerCallback(dp, t, takes) ==
    [dp EXCEPT
        !.collection = IF dp.disposed /\ ~takes
                       THEN dp.collection
                       ELSE analyzeDiagnostics(dp.collection, dp.documents[t.object]),
        !.documentTimers = MapDelete(dp.documentTimers, t.uri),
        !.timers = dp.timers \ {t},
        !.ran = Append(dp.ran, [uri |-> t.uri, closed |-> t.uri \in dp.closed])]

\* DiagnosticProvider.dispose
disposeDiagnostics(dp) ==
    [dp EXCEPT
        !.timers = {t \in dp.timers :
                        \A uri \in DOMAIN dp.documentTimers : dp.documentTimers[uri] # t.id},
        !.documentTimers = <<>>,
        !.collection = <<>>,
        !.disposed = TRUE]

----------------------------------------------------------------------------
(* ProviderManager *)

\* What registerProviders reads of the settings: codeCompletion.enabled,
\* Object.entries(codeCompletion.languages) as <<language, enabled>> pairs,
\* and formatting.formatter.
Settings(enabled, languages, formatter) ==
    [enabled |-> enabled, languages |-> languages, formatter |-> formatter]

\* getDefaultSettings, with the first two of its languages
DefaultSettings ==
    Settings(TRUE, << <<"javascript", TRUE>>, <<"typescript", TRUE>> >>, "prettier")

\* A disposable is [id, kind, language]: a completion provider registered for
\* a language, the formatting provider registered for "*", or the
\* subscription of the configuration listener.  The manager is [settings,
\* disposables, live, nextId, changes, disposed]: the configuration, the
\* disposables array, the registrations and subscriptions the editor holds
\* and that are not disposed, the id of the next disposable, the number of
\* configuration events so far and whether dispose() ran.
Disposable(id, kind, language) == [id |-> id, kind |-> kind, language |-> language]

\* this.disposables.push(...registered), each registered with the editor
PushAll(pm, registered) ==
    [pm EXCEPT !.disposables = pm.disposables \o registered,
               !.live = pm.live \cup {registered[i] : i \in 1..Len(registered)},
               !.nextId = pm.nextId + Len(registered)]

EnabledLanguages(settings) == SelectSeq(settings.languages, LAMBDA entry : entry[2])

registerCompletionProvider(pm) ==
    IF pm.settings.enabled
    THEN LET languages == EnabledLanguages(pm.settings)
         IN  PushAll(pm, [i \in 1..Len(languages) |->
                            Disposable(pm.nextId + i - 1, "completion", languages[i][1])])
    ELSE pm

registerFormattingProvider(pm) ==
    IF pm.settings.formatter = "custom"
    THEN PushAll(pm, <<Disposable(pm.nextId, "formatting", "*")>>)
    ELSE pm

registerProviders(pm) == registerFormattingProvider(registerCompletionProvider(pm))

\* this.disposables.forEach(d => d.dispose()); this.disposables = []
DisposeAll(pm) ==
    [pm EXCEPT !.live = pm.live \ {pm.disposables[i] : i \in 1..Len(pm.disposables)},
               !.disposables = <<>>]

updateProviders(pm) == registerProviders(DisposeAll(pm))

\* the constructor: registerProviders, then the configuration listener is
\* subscribed and its disposable pushed
NewProviderManager(settings) ==
    LET registered == registerProviders([settings |-> settings, disposables |-> <<>>,
                                         live |-> {}, nextId |-> 1, changes |-> 0,
                                         disposed |-> FALSE])
    IN  PushAll(registered, <<Disposable(registered.nextId, "configListener", "")>>)

\* the editor raises onDidChangeConfiguration after the settings became
\* newSettings; affects is e.affectsConfiguration('m31-agents'); the listener
\* runs while its subscription is live
onDidChangeConfiguration(pm, newSettings, affects) ==
    LET changed == [pm EXCEPT !.settings = newSettings]
        listening == \E d \in pm.live : d.kind = "configListener"
    IN  IF listening /\ affects
        THEN updateProviders(changed)
        ELSE changed

\* ProviderManager.dispose, without the DiagnosticProvider
disposeProviders(pm) == [DisposeAll(pm) EXCEPT !.disposed = TRUE]

InitEditor ==
    /\ diagnosticProvider = NoDiagnosticProvider
    /\ providerManager = NewProviderManager(DefaultSettings)

----------------------------------------------------------------------------
(* SpecCache: the cache methods of CompletionService driven directly *)

CacheCallKeys ==
    {PrefillKey(1), PrefillKey(CACHE_MAX_ENTRIES + 1), PrefillKey(CACHE_MAX_ENTRIES + 2)}

InitCache ==
    /\ InitLifecycle
    /\ InitEditor
    /\ now = StartTime
    /\ autoComplete = TRUE
    /\ isEnabled = TRUE
    /\ completionCache \in PrefilledCaches
    /\ pendingEvents = <<>>
    /\ delivered = <<>>
    /\ lastFlush = NoFlush
    /\ activeSessions = <<>>
    /\ ops = <<>>
    /\ netCalls = <<>>
    /\ tracked = <<>>
    /\ tracks = 0
    /\ ret = NoRet
    /\ ticks = 0
    /\ InitModel

CacheGet(key) ==
    /\ ret.n < MaxCacheCalls
    /\ LET r == getFromCache(completionCache, key, now)
       IN  /\ completionCache' = r.cache
           /\ ret' = [op |-> "get", key |-> key, value |-> r.value,
                      existed |-> CacheHas(completionCache, key), n |-> ret.n + 1]
    /\ UNCHANGED <<editorVars, modelVars, lifecycleVars, now, autoComplete, isEnabled, pendingEvents, delivered, lastFlush,
                   activeSessions, ops, netCalls, tracked, tracks, ticks>>

CachePut(key, result) ==
    /\ ret.n < MaxCacheCalls
    /\ completionCache' = addToCache(completionCache, key, result, now)
    /\ ret' = [op |-> "put", key |-> key, value |-> Some(result),
               existed |-> CacheHas(completionCache, key), n |-> ret.n + 1]
    /\ UNCHANGED <<editorVars, modelVars, lifecycleVars, now, autoComplete, isEnabled, pendingEvents, delivered, lastFlush,
                   activeSessions, ops, netCalls, tracked, tracks, ticks>>

Tick(step) ==
    /\ ticks < MaxTicks
    /\ now' = now + step
    /\ ticks' = ticks + 1
    /\ UNCHANGED <<editorVars, modelVars, lifecycleVars, autoComplete, isEnabled, completionCache, pendingEvents, delivered,
                   lastFlush, activeSessions, ops, netCalls, tracked, tracks, ret>>

NextCache ==
    \/ \E key \in CacheCallKeys : CacheGet(key)
    \/ \E key \in CacheCallKeys, result \in {<<"s">>} : CachePut(key, result)
    \/ \E step \in ClockSteps : Tick(step)

SpecCache == InitCache /\ [][NextCache]_vars

----------------------------------------------------------------------------
(* SpecClock: the cache methods under a clock that also steps backwards     *)
(* (Date.now() follows the system time, which can be set back)              *)

NextClock ==
    \/ \E key \in CacheCallKeys : CacheGet(key)
    \/ \E key \in CacheCallKeys, result \in {<<"s">>} : CachePut(key, result)
    \/ \E step \in {-1, 1} : Tick(step)

SpecClock == InitCache /\ [][NextClock]_vars

----------------------------------------------------------------------------
(* SpecTelemetry: the public methods of TelemetryService driven directly *)

InitTelemetry ==
    /\ InitLifecycle
    /\ InitEditor
    /\ now = StartTime
    /\ autoComplete = TRUE
    /\ isEnabled \in BOOLEAN
    /\ completionCache = <<>>
    /\ pendingEvents \in {<<>>, PrefilledEvents(EVENTS_BATCH_SIZE - 1)}
    /\ delivered = <<>>
    /\ lastFlush = NoFlush
    /\ activeSessions = <<>>
    /\ ops = <<>>
    /\ netCalls = <<>>
    /\ tracked = pendingEvents
    /\ tracks = 0
    /\ ret = NoRet
    /\ ticks = 0
    /\ InitModel

SetTel(tel) ==
    /\ pendingEvents' = tel.pendingEvents
    /\ delivered' = tel.delivered
    /\ lastFlush' = tel.lastFlush
    /\ tracked' = tel.tracked

\* a call of trackEvent from outside the services modelled here
TrackEventCall(timestamp, channel) ==
    /\ tracks < MaxTracks
    /\ tracks' = tracks + 1
    /\ SetTel(trackEvent(Tel, isEnabled, Event("command_executed", timestamp, 0),
                         now, channel))
    /\ UNCHANGED <<editorVars, modelVars, lifecycleVars, now, autoComplete, isEnabled, completionCache, activeSessions, ops,
                   netCalls, ret, ticks>>

TrackHelpers ==
    {"trackException", "trackMetric", "trackCommand", "trackExtensionActivation",
     "trackApiEvent"}

\* a call of one of the tracking helpers that build the event themselves
TrackHelperCall(helper, channel) ==
    /\ tracks < MaxTracks
    /\ tracks' = tracks + 1
    /\ SetTel(CASE helper = "trackException" -> trackException(Tel, isEnabled, now, channel)
                [] helper = "trackMetric" -> trackMetric(Tel, isEnabled, now, channel)
                [] helper = "trackCommand" -> trackCommand(Tel, isEnabled, now, channel)
                [] helper = "trackExtensionActivation" ->
                      trackExtensionActivation(Tel, isEnabled, now, channel)
                [] helper = "trackApiEvent" ->
                      trackApiEvent(Tel, isEnabled, now, 0, TRUE, channel))
    /\ UNCHANGED <<editorVars, modelVars, lifecycleVars, now, autoComplete, isEnabled, completionCache, activeSessions, ops,
                   netCalls, ret, ticks>>

\* flush() called by the interval timer, by deactivate() or by a caller
Flush(channel) ==
    /\ SetTel(flush(Tel, isEnabled, channel))
    /\ UNCHANGED <<editorVars, modelVars, lifecycleVars, now, autoComplete, isEnabled, completionCache, activeSessions, ops,
                   netCalls, tracks, ret, ticks>>

\* enable(), disable(), or a change of m31-agents.telemetry.  The step is the
\* call of enable()/disable(), whose configuration write has not landed, or
\* the change of the setting, on which the listener of ProviderManager runs too
SetTelemetryEnabled(enabled) ==
    /\ isEnabled' = enabled
    /\ providerManager' \in
            {providerManager,
             onDidChangeConfiguration(providerManager, providerManager.settings, TRUE)}
    /\ UNCHANGED <<diagnosticProvider, modelVars, lifecycleVars, now, autoComplete, completionCache, pendingEvents, delivered,
                   lastFlush, activeSessions, ops, netCalls, tracked, tracks, ret, ticks>>

\* the timestamps a caller of trackEvent passes: none (0), the current time,
\* an old one
NextTelemetry ==
    \/ \E timestamp \in {0, now, 1}, channel \in Channels : TrackEventCall(timestamp, channel)
    \/ \E helper \in TrackHelpers, channel \in Channels : TrackHelperCall(helper, channel)
    \/ \E channel \in Channels : Flush(channel)
    \/ \E enabled \in BOOLEAN : SetTelemetryEnabled(enabled)
    \/ \E step \in {1} : Tick(step)

SpecTelemetry == InitTelemetry /\ [][NextTelemetry]_vars

\* SpecHelpers: the tracking methods, flush and the switch, at one clock time
NextHelpers ==
    \/ \E channel \in Channels : TrackEventCall(now, channel)
    \/ \E helper \in TrackHelpers, channel \in Channels : TrackHelperCall(helper, channel)
    \/ \E channel \in Channels : Flush(channel)
    \/ \E enabled \in BOOLEAN : SetTelemetryEnabled(enabled)

SpecHelpers == InitTelemetry /\ [][NextHelpers]_vars

----------------------------------------------------------------------------
(* SpecLifecycle: the flush timer and the shutdown paths *)

\* trackExtensionDeactivation(): the event, then flush(); at most one of the
\* two flushes finds events.  When trackEvent throws (line 98) the call
\* throws and flush() is not reached.
trackExtensionDeactivation(tel, enabled, clock, channel) ==
    IF enabled /\ 98 \in channel
    THEN tel
    ELSE flush(trackEvent(tel, enabled, OwnEvent("extension_deactivated", clock),
                          clock, channel),
               enabled, channel)

\* deactivate() of extension.ts: inside try, the event with the API session
\* id, then flush(); when trackEvent throws, the catch block (lines 96-98)
\* writes to the console and deactivate returns without having called flush()
deactivate(tel, enabled, clock, channel) ==
    IF enabled /\ 98 \in channel
    THEN tel
    ELSE flush(trackEvent(tel, enabled, Event("extension_deactivated", clock, 0),
                          clock, channel),
               enabled, channel)

\* dispose(): clearInterval, flushInterval = null, then flush()
dispose(tel, enabled, channel) ==
    [flushInterval |-> FALSE, tel |-> flush(tel, enabled, channel)]

\* the interval callback of setupFlushInterval; clearInterval ends it
TimerFlush(channel) ==
    /\ flushInterval
    /\ SetTel(flush(Tel, isEnabled, channel))
    /\ timerFired' = TRUE
    /\ UNCHANGED <<editorVars, modelVars, apiSession, flushInterval, shutdown, now, autoComplete,
                   isEnabled, completionCache, activeSessions, ops, netCalls, tracks, ret,
                   ticks>>

TrackExtensionDeactivation(channel) ==
    /\ shutdown.n < MaxShutdowns
    /\ SetTel(trackExtensionDeactivation(Tel, isEnabled, now, channel))
    /\ shutdown' = [shutdown EXCEPT !.op = "trackExtensionDeactivation", !.n = @ + 1]
    /\ UNCHANGED <<editorVars, modelVars, apiSession, flushInterval, timerFired, now, autoComplete,
                   isEnabled, completionCache, activeSessions, ops, netCalls, tracks, ret,
                   ticks>>

Deactivate(channel) ==
    /\ shutdown.n < MaxShutdowns
    /\ SetTel(deactivate(Tel, isEnabled, now, channel))
    /\ shutdown' = [shutdown EXCEPT !.op = "deactivate", !.n = @ + 1]
    /\ UNCHANGED <<editorVars, modelVars, apiSession, flushInterval, timerFired, now, autoComplete,
                   isEnabled, completionCache, activeSessions, ops, netCalls, tracks, ret,
                   ticks>>

Dispose(channel) ==
    /\ shutdown.n < MaxShutdowns
    /\ LET r == dispose(Tel, isEnabled, channel)
       IN  /\ SetTel(r.tel)
           /\ flushInterval' = r.flushInterval
    /\ shutdown' = [op |-> "dispose", n |-> shutdown.n + 1, disposed |-> TRUE]
    /\ timerFired' = FALSE
    /\ UNCHANGED <<editorVars, modelVars, apiSession, now, autoComplete, isEnabled, completionCache,
                   activeSessions, ops, netCalls, tracks, ret, ticks>>

\* ApiClient.createNewSession()
CreateNewSession ==
    /\ Len(apiSession) < MaxApiSessions
    /\ apiSession' = Append(apiSession, Len(tracked))
    /\ UNCHANGED <<editorVars, modelVars, flushInterval, shutdown, timerFired, now, autoComplete,
                   isEnabled, completionCache, pendingEvents, delivered, lastFlush,
                   activeSessions, ops, netCalls, tracked, tracks, ret, ticks>>

NextLifecycle ==
    \/ \E channel \in Channels : TrackEventCall(now, channel)
    \/ \E channel \in Channels : TimerFlush(channel)
    \/ \E channel \in Channels : TrackExtensionDeactivation(channel)
    \/ \E channel \in Channels : Deactivate(channel)
    \/ \E channel \in Channels : Dispose(channel)
    \/ \E enabled \in BOOLEAN : SetTelemetryEnabled(enabled)

SpecLifecycle == InitTelemetry /\ [][NextLifecycle]_vars

\* the timer keeps firing while it is armed
SpecLifecycleFair == SpecLifecycle /\ WF_vars(\E channel \in Channels : TimerFlush(channel))

----------------------------------------------------------------------------
(* SpecSession: tracking while the API client replaces its session id *)

NextSession ==
    \/ \E channel \in Channels : TrackEventCall(now, channel)
    \/ \E channel \in Channels : Flush(channel)
    \/ \E enabled \in BOOLEAN : SetTelemetryEnabled(enabled)
    \/ CreateNewSession

SpecSession == InitTelemetry /\ [][NextSession]_vars

----------------------------------------------------------------------------
(* CompletionOrchestrator: CompletionService.getCompletion and AgentService *)

\* A trigger: the document (language, lines), the cursor and the context.
Trigger(languageId, lines, line, character, context) ==
    [languageId |-> languageId, lines |-> lines, line |-> line,
     character |-> character, context |-> context]

\* document.lineAt(line).text
LineAt(trigger, line) == trigger.lines[line + 1]

\* lineText.substring(0, position.character)
LinePrefix(trigger) == Substring0(LineAt(trigger, trigger.line), trigger.character)

\* lineText.substring(position.character)
LineSuffix(trigger) ==
    LET text == LineAt(trigger, trigger.line)
    IN  SubSeq(text, Min(Max(trigger.character, 0), Len(text)) + 1, Len(text))

NewLine == <<"\n">>

\* the loop of lines 146-148: document lines from..to, each followed by "\n"
RECURSIVE LinesText(_, _, _)
LinesText(trigger, from, to) ==
    IF from > to THEN <<>>
    ELSE LineAt(trigger, from) \o NewLine \o LinesText(trigger, from + 1, to)

\* contextAfter (lines 152-160): the rest of the cursor line and the lines
\* down to endLine, each followed by "\n"
ContextAfter(trigger, linesToContextAfter) ==
    LET endLine == Min(Len(trigger.lines) - 1, trigger.line + linesToContextAfter)
    IN  IF trigger.line > endLine THEN <<>>
        ELSE LineSuffix(trigger) \o NewLine \o LinesText(trigger, trigger.line + 1, endLine)

\* buildCompletionRequest: the prompt and the model of the request.  The
\* request has no field for contextAfter.
buildCompletionRequest(trigger, linePrefix, linesToContextBefore, linesToContextAfter, model) ==
    LET startLine == Max(0, trigger.line - linesToContextBefore)
        promptText == LinesText(trigger, startLine, trigger.line - 1) \o linePrefix
    IN  [prompt |-> IF trigger.context # <<>>
                    THEN trigger.context \o NewLine \o NewLine \o promptText
                    ELSE promptText,
         model |-> model]

Triggers ==
    {Trigger(JS, << <<"c", ".">> >>, 0, 2, <<>>),     \* prefix "c."
     Trigger(PY, << <<"c", ".">> >>, 0, 2, <<>>),     \* the same text in python
     Trigger(JS, << <<"c", ".">> >>, 0, 0, <<>>),     \* cursor at column 0
     Trigger(JS, << <<" ", "x">> >>, 0, 1, <<>>)}     \* prefix " "

\* What the await of an ApiClient call brings: a success result with text
\* and token count ("ok"), a success result without value ("malformed"), an
\* error result ("error"), or a rejection ("throw").
ApiOutcome(kind, text, tokens) == [kind |-> kind, text |-> text, tokens |-> tokens]

ApiOutcomes ==
    {ApiOutcome("ok", <<"r">>, 7), ApiOutcome("ok", <<>>, 0),
     ApiOutcome("error", <<>>, 0), ApiOutcome("throw", <<>>, 0)}

OneShotOutcomes ==
    {ApiOutcome("ok", <<"r">>, 7), ApiOutcome("error", <<>>, 0),
     ApiOutcome("throw", <<>>, 0), ApiOutcome("malformed", <<>>, 0)}

\* What can throw inside getCompletion besides the API call: nothing, a cache
\* method, trackCompletionEvent, or the logger.  With "logger" the output
\* channel fails on every line while the log level is debug, so every
\* logger.info and logger.error call throws and so does the logger.debug of
\* trackEvent.  With "loggerInfo" the channel fails in the same way while
\* the log level is info (the level the Logger starts with): logger.info and
\* logger.error throw, logger.debug writes nothing and returns.
Faults == {"none", "cache", "telemetry", "logger", "loggerInfo"}

Capabilities ==
    {"code_generation", "code_explanation", "commit_generation", "log_generation",
     "chat"}

\* startSession: the new session id `${capability}-${Date.now()}-${suffix}`;
\* id is what Math.random().toString(36).substring(2, 9) gave
SessionId(capability, clock, id) == <<capability, clock, id>>

startSession(sessions, capability, clock, id) ==
    MapSet(sessions, SessionId(capability, clock, id),
           [startTime |-> clock, capability |-> capability])

\* endSession: [sessions, tel] afterwards
endSession(sessions, tel, enabled, sessionId, capability, success, clock, id) ==
    IF sessionId \notin DOMAIN sessions
    THEN [sessions |-> sessions, tel |-> tel]
    ELSE LET duration == clock - sessions[sessionId].startTime
         IN  [sessions |-> MapDelete(sessions, sessionId),
              tel |-> trackEvent(tel, enabled,
                                 FeatureEvent(clock, capability, success, duration,
                                              selectedModel, id),
                                 clock, {})]

NoSession == <<>>

\* The record of an operation: kind is "completion" (getCompletion called
\* directly), "agentCompletion" (through getCodeCompletion) or "oneShot";
\* pc is where it stands: "awaitApi", "endSession" or "done"; path is the way
\* getCompletion took: "disabled", "blank", "hit", "miss" or "threw" ("call"
\* for a one-shot operation, "threw" for one that ended before its call); api is what became of its API call: "none",
\* "pending", "ok", "malformed", "error" or "throw"; settled is what became of
\* the promise the operation returned: "pending", "resolved" or "rejected";
\* text and tokens are the text and the token count of the response; error
\* is the error the result carries: "none", "api" (built from the error result) or "thrown".
Op(kind, capability, pc, path, key, startTime, sessionId, result, success) ==
    [kind |-> kind, capability |-> capability, pc |-> pc, path |-> path,
     api |-> IF pc = "awaitApi" THEN "pending" ELSE "none", key |-> key,
     startTime |-> startTime, sessionId |-> sessionId, result |-> result,
     success |-> success,
     settled |-> IF pc = "done" THEN "resolved" ELSE "pending",
     text |-> <<>>, tokens |-> 0, error |-> "none"]

\* the try/catch of getCompletion (lines 48, 116-123) around what the body
\* did: after a throw in the body the catch block calls logger.error and
\* ends in `return undefined`; when logger.error throws, the promise rejects
getCompletionCatch(r, fault) ==
    IF r.thrown
    THEN [r EXCEPT !.pc = "done", !.path = "threw", !.result = None,
                   !.settled = IF fault \in {"logger", "loggerInfo"}
                                THEN "rejected" ELSE "resolved"]
    ELSE r

\* the body of getCompletion up to its first await (lines 49-86) for
\* operation id: [pc, path, key, result, cache, tel, call, settled, thrown]
getCompletionStart(trigger, id, fault) ==
    LET startTime == now
        linePrefix == LinePrefix(trigger)
        cacheKey == getCacheKey(trigger.languageId, linePrefix, trigger.context)
        read == getFromCache(completionCache, cacheKey, now)
        quiet == [pc |-> "done", path |-> "disabled", key |-> <<>>, result |-> None,
                  cache |-> completionCache, tel |-> Tel, call |-> FALSE,
                  settled |-> "resolved", thrown |-> FALSE]
    IN  IF ~autoComplete THEN quiet
        ELSE IF IsBlank(linePrefix) THEN [quiet EXCEPT !.path = "blank"]
        ELSE IF fault = "cache"
             THEN [quiet EXCEPT !.key = cacheKey, !.thrown = TRUE]
        ELSE IF Truthy(read.value)
             THEN IF (fault = "telemetry" \/ (fault = "logger" /\ isEnabled))
                  THEN [quiet EXCEPT !.key = cacheKey, !.cache = read.cache,
                                     !.thrown = TRUE]
                  ELSE [quiet EXCEPT
                          !.path = "hit", !.key = cacheKey, !.result = read.value,
                          !.cache = read.cache,
                          !.tel = trackEvent(Tel, isEnabled,
                                             CompletionEvent(now, now - startTime, TRUE,
                                                             TRUE, 0, configModel, id),
                                             now, {})]
             ELSE [quiet EXCEPT
                     !.pc = "awaitApi", !.path = "miss", !.key = cacheKey,
                     !.cache = read.cache, !.call = TRUE, !.settled = "pending"]

\* getCompletionResume without the addToCache call of line 101
getCompletionResume_NoStore(op, id, outcome, fault) ==
    LET fail == [pc |-> "done", path |-> op.path, result |-> None,
                 cache |-> completionCache, tel |-> Tel, settled |-> "resolved",
                 thrown |-> FALSE]
    IN  CASE outcome.kind = "error" ->
                IF fault \in {"logger", "loggerInfo"} THEN [fail EXCEPT !.thrown = TRUE]
                ELSE fail
          [] outcome.kind \in {"throw", "malformed"} -> [fail EXCEPT !.thrown = TRUE]
          [] outcome.kind = "ok" ->
                IF fault = "cache" \/ (fault = "telemetry" \/ (fault = "logger" /\ isEnabled)) THEN [fail EXCEPT !.thrown = TRUE]
                ELSE [fail EXCEPT
                        !.result = Some(outcome.text),
                        !.tel = trackEvent(Tel, isEnabled,
                                           CompletionEvent(now, now - op.startTime,
                                                           TRUE, FALSE, outcome.tokens,
                                                           configModel, id),
                                           now, {})]

\* getCompletionResume that caches the empty text of an error result
getCompletionResume_StoreOnError(op, id, outcome, fault) ==
    LET fail == [pc |-> "done", path |-> op.path, result |-> None,
                 cache |-> completionCache, tel |-> Tel, settled |-> "resolved",
                 thrown |-> FALSE]
        stored == addToCache(completionCache, op.key, outcome.text, now)
    IN  CASE outcome.kind = "error" -> [fail EXCEPT !.cache = stored]
          [] outcome.kind \in {"throw", "malformed"} -> [fail EXCEPT !.thrown = TRUE]
          [] outcome.kind = "ok" ->
                IF fault = "cache" THEN [fail EXCEPT !.thrown = TRUE]
                ELSE IF (fault = "telemetry" \/ (fault = "logger" /\ isEnabled))
                     THEN [fail EXCEPT !.cache = stored, !.thrown = TRUE]
                     ELSE [fail EXCEPT
                             !.result = Some(outcome.text),
                             !.cache = stored,
                             !.tel = trackEvent(Tel, isEnabled,
                                                CompletionEvent(now, now - op.startTime,
                                                                TRUE, FALSE,
                                                                outcome.tokens,
                                                                configModel, id),
                                                now, {})]

\* getCompletionResume that gives up, as if cancelled, when a later request
\* has been issued
getCompletionResume_Cancelled(op, id, outcome, fault) ==
    LET fail == [pc |-> "done", path |-> op.path, result |-> None,
                 cache |-> completionCache, tel |-> Tel, settled |-> "resolved",
                 thrown |-> FALSE]
        stored == addToCache(completionCache, op.key, outcome.text, now)
    IN  CASE outcome.kind = "error" ->
                IF fault \in {"logger", "loggerInfo"} THEN [fail EXCEPT !.thrown = TRUE]
                ELSE fail
          [] outcome.kind \in {"throw", "malformed"} -> [fail EXCEPT !.thrown = TRUE]
          [] outcome.kind = "ok" ->
                IF fault = "cache" THEN [fail EXCEPT !.thrown = TRUE]
                ELSE IF (fault = "telemetry" \/ (fault = "logger" /\ isEnabled))
                     THEN [fail EXCEPT !.cache = stored, !.thrown = TRUE]
                     ELSE IF Len(ops) > id THEN fail
                     ELSE [fail EXCEPT
                             !.result = Some(outcome.text),
                             !.cache = stored,
                             !.tel = trackEvent(Tel, isEnabled,
                                                CompletionEvent(now, now - op.startTime,
                                                                TRUE, FALSE,
                                                                outcome.tokens,
                                                                configModel, id),
                                                now, {})]

\* the body of getCompletion after the await (lines 88-115):
\* [pc, path, result, cache, tel, settled, thrown]
getCompletionResume(op, id, outcome, fault) ==
    LET fail == [pc |-> "done", path |-> op.path, result |-> None,
                 cache |-> completionCache, tel |-> Tel, settled |-> "resolved",
                 thrown |-> FALSE]
        stored == addToCache(completionCache, op.key, outcome.text, now)
    IN  CASE outcome.kind = "error" ->
                IF fault \in {"logger", "loggerInfo"} THEN [fail EXCEPT !.thrown = TRUE]
                ELSE fail
          [] outcome.kind \in {"throw", "malformed"} -> [fail EXCEPT !.thrown = TRUE]
          [] outcome.kind = "ok" ->
                IF fault = "cache" THEN [fail EXCEPT !.thrown = TRUE]
                ELSE IF (fault = "telemetry" \/ (fault = "logger" /\ isEnabled))
                     THEN [fail EXCEPT !.cache = stored, !.thrown = TRUE]
                     ELSE [fail EXCEPT
                             !.result = Some(outcome.text),
                             !.cache = stored,
                             !.tel = trackEvent(Tel, isEnabled,
                                                CompletionEvent(now, now - op.startTime,
                                                                TRUE, FALSE,
                                                                outcome.tokens,
                                                                configModel, id),
                                                now, {})]

Call(id, endpoint, key, request) ==
    [op |-> id, endpoint |-> endpoint, key |-> key, model |-> request.model,
     prompt |-> request.prompt]

\* the request getCompletion builds at line 83 with the default settings
CompletionRequest(trigger) ==
    buildCompletionRequest(trigger, LinePrefix(trigger), LINES_CONTEXT_BEFORE,
                           LINES_CONTEXT_AFTER, configModel)

\* the request of a one-shot operation: modelId: params.modelId ||
\* this.selectedModel; chat takes no modelId and sends this.selectedModel
OneShotRequest(capability, modelId) ==
    [prompt |-> <<>>,
     model |-> IF capability # "chat" /\ modelId # "" THEN modelId ELSE selectedModel]

\* generateCode, explainCode, generateCommitMessage, addLogging and chat after
\* the await: an error result ends the session with success = false; a success
\* result ends it with success = true and then reads the payload, which throws
\* when the result has no value; the catch block calls logger.error, ends the
\* session with success = false (a no-op when it was ended already) and
\* returns the error.  With the fault "logger" the logger.debug of trackEvent
\* throws inside endSession (telemetry enabled, session still recorded),
\* before the session is deleted; with "logger" and with "loggerInfo" the
\* logger.error that opens the catch block throws out of it: the promise
\* rejects, after endSession ran to its end when it did not throw.
\* [sessions, tel, success, result, error, settled]
oneShotResume(sessions, tel, enabled, op, id, outcome, fault) ==
    LET okBody == outcome.kind \in {"ok", "malformed"}
        endThrows == /\ fault = "logger" /\ enabled /\ outcome.kind # "throw"
                     /\ op.sessionId \in DOMAIN sessions
        body == IF outcome.kind = "throw" \/ endThrows
                THEN [sessions |-> sessions, tel |-> tel]
                ELSE endSession(sessions, tel, enabled, op.sessionId, op.capability,
                                okBody, now, id)
        thrown == outcome.kind \in {"throw", "malformed"} \/ endThrows
        catchThrows == thrown /\ fault \in {"logger", "loggerInfo"}
        caught == IF thrown /\ ~catchThrows
                  THEN endSession(body.sessions, body.tel, enabled, op.sessionId,
                                  op.capability, FALSE, now, id)
                  ELSE body
    IN  [sessions |-> caught.sessions, tel |-> caught.tel,
         success |-> outcome.kind = "ok" /\ ~thrown,
         result |-> IF outcome.kind = "ok" /\ ~thrown THEN Some(outcome.text) ELSE None,
         error |-> CASE thrown -> "thrown"
                     [] outcome.kind = "error" -> "api"
                     [] OTHER -> "none",
         settled |-> IF catchThrows THEN "rejected" ELSE "resolved"]

Init ==
    /\ InitLifecycle
    /\ InitEditor
    /\ now = StartTime
    /\ autoComplete = TRUE
    /\ isEnabled \in BOOLEAN
    /\ completionCache = <<>>
    /\ pendingEvents = <<>>
    /\ delivered = <<>>
    /\ lastFlush = NoFlush
    /\ activeSessions = <<>>
    /\ ops = <<>>
    /\ netCalls = <<>>
    /\ tracked = <<>>
    /\ tracks = 0
    /\ ret = NoRet
    /\ ticks = 0
    /\ InitModel

\* CompletionService.getCompletion called directly, up to its first await
GetCompletion(trigger, fault) ==
    /\ Len(ops) < MaxOps
    /\ LET id == Len(ops) + 1
           r == getCompletionCatch(getCompletionStart(trigger, id, fault), fault)
       IN  /\ ops' = Append(ops, [Op("completion", "code_completion", r.pc, r.path,
                                     r.key, now, NoSession, r.result, TRUE)
                                  EXCEPT !.settled = r.settled])
           /\ completionCache' = r.cache
           /\ SetTel(r.tel)
           /\ netCalls' = IF r.call
                          THEN Append(netCalls, Call(id, "/completions", r.key,
                                                     CompletionRequest(trigger)))
                          ELSE netCalls
    /\ UNCHANGED <<editorVars, modelVars, lifecycleVars, now, autoComplete, isEnabled, activeSessions, tracks, ret,
                   ticks>>

\* AgentService.getCodeCompletion up to its await: startSession, then
\* getCompletion up to getCompletion's first await
GetCodeCompletion(trigger, fault) ==
    /\ Len(ops) < MaxOps
    /\ LET id == Len(ops) + 1
           r == getCompletionCatch(getCompletionStart(trigger, id, fault), fault)
       IN  /\ activeSessions' = startSession(activeSessions, "code_completion", now, id)
           /\ ops' = Append(ops, [Op("agentCompletion", "code_completion",
                                     IF r.pc = "done" THEN "endSession" ELSE r.pc,
                                     r.path, r.key, now,
                                     SessionId("code_completion", now, id),
                                     r.result, TRUE)
                                  EXCEPT !.settled = r.settled])
           /\ completionCache' = r.cache
           /\ SetTel(r.tel)
           /\ netCalls' = IF r.call
                          THEN Append(netCalls, Call(id, "/completions", r.key,
                                                     CompletionRequest(trigger)))
                          ELSE netCalls
    /\ UNCHANGED <<editorVars, modelVars, lifecycleVars, now, autoComplete, isEnabled, tracks, ret, ticks>>

\* the API call of a completion request resolves: getCompletion runs to its end
CompletionResolves(id, outcome, fault) ==
    /\ id \in 1..Len(ops)
    /\ ops[id].kind \in {"completion", "agentCompletion"}
    /\ ops[id].pc = "awaitApi"
    /\ LET r == getCompletionCatch(getCompletionResume(ops[id], id, outcome, fault), fault)
       IN  /\ ops' = [ops EXCEPT ![id].result = r.result,
                                 ![id].api = outcome.kind,
                                 ![id].text = outcome.text,
                                 ![id].tokens = outcome.tokens,
                                 ![id].path = r.path,
                                 ![id].settled = r.settled,
                                 ![id].pc = IF ops[id].kind = "completion" THEN "done"
                                            ELSE "endSession"]
           /\ completionCache' = r.cache
           /\ SetTel(r.tel)
    /\ UNCHANGED <<editorVars, modelVars, lifecycleVars, now, autoComplete, isEnabled, activeSessions, netCalls,
                   tracks, ret, ticks>>

\* getCodeCompletion after its await (lines 106-112): endSession with true
\* when getCompletion resolved, the catch block when it rejected or when
\* endSession threw.  With the fault "logger" the logger.debug of trackEvent
\* throws inside endSession (telemetry enabled), before the session is
\* deleted, and with "logger" and "loggerInfo" the logger.error of line 109
\* throws out of the catch block:
\* the promise rejects and the session stays in activeSessions.
CodeCompletionEnds(id, fault) ==
    /\ id \in 1..Len(ops)
    /\ ops[id].kind = "agentCompletion"
    /\ ops[id].pc = "endSession"
    /\ LET resolved == ops[id].settled = "resolved"
           caught == \/ ~resolved
                     \/ /\ fault = "logger" /\ isEnabled
                        /\ ops[id].sessionId \in DOMAIN activeSessions
           r == IF caught /\ fault \in {"logger", "loggerInfo"}
                THEN [sessions |-> activeSessions, tel |-> Tel]
                ELSE endSession(activeSessions, Tel, isEnabled, ops[id].sessionId,
                                "code_completion", resolved, now, id)
       IN  /\ activeSessions' = r.sessions
           /\ SetTel(r.tel)
           /\ ops' = [ops EXCEPT ![id].pc = "done",
                                 ![id].settled = IF caught /\ fault \in {"logger", "loggerInfo"}
                                                 THEN "rejected" ELSE "resolved",
                                 ![id].result = IF caught THEN None ELSE ops[id].result]
    /\ UNCHANGED <<editorVars, modelVars, lifecycleVars, now, autoComplete, isEnabled, completionCache, netCalls,
                   tracks, ret, ticks>>

\* generateCode, explainCode, generateCommitMessage, addLogging, chat up to
\* the await of the API call; modelId is params.modelId ("": not given),
\* suffix is the random suffix startSession draws.  startSession runs before
\* try; the first statement inside try is logger.info (line 122): with the
\* fault "logger" or "loggerInfo" it throws, the logger.error that opens the catch block
\* (line 142) throws again, and the operation is over before its API call:
\* the promise rejects and the session stays in activeSessions.
OneShotSuffix(capability, modelId, suffix, fault) ==
    /\ Len(ops) < MaxOps
    /\ LET id == Len(ops) + 1
           sessionId == SessionId(capability, now, suffix)
       IN  /\ activeSessions' = startSession(activeSessions, capability, now, suffix)
           /\ ops' = Append(ops,
                            IF fault \in {"logger", "loggerInfo"}
                            THEN [Op("oneShot", capability, "done", "threw", <<>>, now,
                                     sessionId, None, FALSE)
                                  EXCEPT !.settled = "rejected", !.error = "thrown"]
                            ELSE Op("oneShot", capability, "awaitApi", "call", <<>>, now,
                                    sessionId, None, FALSE))
           /\ netCalls' = IF fault \in {"logger", "loggerInfo"} THEN netCalls
                          ELSE Append(netCalls, Call(id, capability, <<>>,
                                                     OneShotRequest(capability, modelId)))
    /\ UNCHANGED <<editorVars, modelVars, lifecycleVars, now, autoComplete, isEnabled, completionCache,
                   pendingEvents, delivered, lastFlush, tracked, tracks, ret, ticks>>

\* the same with a suffix of its own for each operation (its number)
OneShot(capability, modelId, fault) ==
    OneShotSuffix(capability, modelId, Len(ops) + 1, fault)

\* the API call of a one-shot operation resolves: the operation runs to its end
OneShotResolves(id, outcome, fault) ==
    /\ id \in 1..Len(ops)
    /\ ops[id].kind = "oneShot"
    /\ ops[id].pc = "awaitApi"
    /\ LET r == oneShotResume(activeSessions, Tel, isEnabled, ops[id], id, outcome, fault)
       IN  /\ activeSessions' = r.sessions
           /\ SetTel(r.tel)
           /\ ops' = [ops EXCEPT ![id].pc = "done", ![id].success = r.success,
                                 ![id].api = outcome.kind,
                                 ![id].text = outcome.text,
                                 ![id].result = r.result,
                                 ![id].error = r.error,
                                 ![id].settled = r.settled]
    /\ UNCHANGED <<editorVars, modelVars, lifecycleVars, now, autoComplete, isEnabled, completionCache, netCalls,
                   tracks, ret, ticks>>

\* a change of m31-agents.autoComplete; when the value is a new one the
\* listener of ProviderManager runs
SetAutoComplete(enabled) ==
    /\ autoComplete' = enabled
    /\ providerManager' =
            IF enabled # autoComplete
            THEN onDidChangeConfiguration(providerManager, providerManager.settings, TRUE)
            ELSE providerManager
    /\ UNCHANGED <<diagnosticProvider, modelVars, lifecycleVars, now, isEnabled, completionCache, pendingEvents, delivered,
                   lastFlush, activeSessions, ops, netCalls, tracked, tracks, ret, ticks>>

Next ==
    \/ \E trigger \in Triggers : GetCompletion(trigger, "none")
    \/ \E id \in 1..MaxOps, outcome \in ApiOutcomes : CompletionResolves(id, outcome, "none")
    \/ \E enabled \in BOOLEAN : SetAutoComplete(enabled)
    \/ \E step \in {CACHE_TTL_MS} : ticks < MaxOpTicks /\ Tick(step)

Spec == Init /\ [][Next]_vars

----------------------------------------------------------------------------
(* SpecAgent: the operations of AgentService, one-shot operations included *)

AgentTriggers ==
    {Trigger(JS, << <<"c", ".">> >>, 0, 2, <<>>),     \* prefix "c."
     Trigger(JS, << <<"c", ".">> >>, 0, 0, <<>>),     \* cursor at column 0
     Trigger(JS, << <<" ", "x">> >>, 0, 1, <<>>)}     \* prefix " "

NextAgent ==
    \/ \E capability \in Capabilities : OneShot(capability, "", "none")
    \/ \E id \in 1..MaxOps, outcome \in OneShotOutcomes : OneShotResolves(id, outcome, "none")
    \/ \E trigger \in AgentTriggers : GetCodeCompletion(trigger, "none")
    \/ \E id \in 1..MaxOps, outcome \in ApiOutcomes : CompletionResolves(id, outcome, "none")
    \/ \E id \in 1..MaxOps : CodeCompletionEnds(id, "none")
    \/ \E enabled \in BOOLEAN : SetAutoComplete(enabled)

SpecAgent == Init /\ [][NextAgent]_vars

----------------------------------------------------------------------------
(* SpecSessions: one-shot operations with the random suffix of the session  *)
(* id drawn freely                                                          *)

\* what Math.random().toString(36).substring(2, 9) can give
Suffixes == {"k3x9q2a", "i"}

NextSessions ==
    \/ \E capability \in {"code_generation", "chat"}, suffix \in Suffixes :
            OneShotSuffix(capability, "", suffix, "none")
    \/ \E id \in 1..MaxOps, outcome \in OneShotOutcomes : OneShotResolves(id, outcome, "none")

SpecSessions == Init /\ [][NextSessions]_vars

----------------------------------------------------------------------------
(* SpecFaults: getCompletion, called directly and through getCodeCompletion, *)
(* and the one-shot operations, with failures of the API call, of the cache *)
(* methods, of trackCompletionEvent and of the output channel               *)

FaultTriggers ==
    {Trigger(JS, << <<"c", ".">> >>, 0, 2, <<>>),     \* prefix "c."
     Trigger(JS, << <<"c", ".">> >>, 0, 0, <<>>)}     \* cursor at column 0

NextFaults ==
    \/ \E trigger \in FaultTriggers, fault \in Faults : GetCompletion(trigger, fault)
    \/ \E id \in 1..MaxOps, outcome \in ApiOutcomes, fault \in Faults :
            CompletionResolves(id, outcome, fault)
    \/ \E trigger \in FaultTriggers, fault \in {"none", "logger", "loggerInfo"} :
            GetCodeCompletion(trigger, fault)
    \/ \E id \in 1..MaxOps, fault \in {"none", "logger", "loggerInfo"} : CodeCompletionEnds(id, fault)
    \/ \E capability \in {"code_generation", "chat"}, fault \in {"none", "logger", "loggerInfo"} :
            OneShot(capability, "", fault)
    \/ \E id \in 1..MaxOps, outcome \in OneShotOutcomes, fault \in {"none", "logger", "loggerInfo"} :
            OneShotResolves(id, outcome, fault)

SpecFaults == Init /\ [][NextFaults]_vars

----------------------------------------------------------------------------
(* SpecModel: requests built while the model selection changes *)

\* "standard" is the model selected at the start; setModel is called with
\* SetModelChoices, the setting is edited to ConfigModelChoices
SetModelChoices == {"advanced"}

ConfigModelChoices == {"expert"}

\* params.modelId of a one-shot operation: not given, or a model
ModelIdParams == {"", "expert"}

ModelOutcomes == {ApiOutcome("ok", <<"r">>, 7)}

\* m31-agents.model became newModel: the listener of the AgentService
\* constructor (lines 44-62) runs while its subscription is in disposables
\* (dispose() ends it).  [selectedModel, tel]
onModelConfigChanged(tel, enabled, previousModel, newModel, clock) ==
    IF disposables = <<>>
    THEN [selectedModel |-> previousModel, tel |-> tel]
    ELSE [selectedModel |-> newModel,
          tel |-> trackEvent(tel, enabled,
                             [Event("model_changed", clock, 0) EXCEPT
                                 !.modelId = newModel],
                             clock, {})]

ModelChange(kind, model, pc) == [kind |-> kind, model |-> model, pc |-> pc]

\* AgentService.setModel up to its await (lines 87-89)
SetModel(model) ==
    /\ Len(modelChanges) < MaxModelChanges
    /\ modelChanges' = Append(modelChanges,
                              ModelChange("setModel", model,
                                          IF model # selectedModel THEN "awaitUpdate"
                                          ELSE "done"))
    /\ UNCHANGED <<editorVars, lifecycleVars, now, autoComplete, isEnabled, completionCache, pendingEvents,
                   delivered, lastFlush, activeSessions, ops, netCalls, tracked, tracks,
                   ret, ticks, configModel, selectedModel, disposables, built>>

\* the configuration update of a setModel call takes effect (ok) or fails:
\* the setting changes and the listeners run when the value is a new one
ConfigUpdateLands(i, ok) ==
    /\ i \in 1..Len(modelChanges)
    /\ modelChanges[i].pc = "awaitUpdate"
    /\ modelChanges' = [modelChanges EXCEPT ![i].pc = IF ok THEN "resume" ELSE "done"]
    /\ IF ok /\ modelChanges[i].model # configModel
       THEN LET r == onModelConfigChanged(Tel, isEnabled, selectedModel,
                                          modelChanges[i].model, now)
            IN  /\ configModel' = modelChanges[i].model
                /\ selectedModel' = r.selectedModel
                /\ SetTel(r.tel)
                /\ providerManager' =
                        onDidChangeConfiguration(providerManager,
                                                 providerManager.settings, TRUE)
       ELSE UNCHANGED <<configModel, selectedModel, pendingEvents, delivered, lastFlush,
                        tracked, providerManager>>
    /\ UNCHANGED <<diagnosticProvider, lifecycleVars, now, autoComplete, isEnabled, completionCache, activeSessions, ops,
                   netCalls, tracks, ret, ticks, disposables, built>>

\* AgentService.setModel after its await (line 90)
SetModelResumes(i) ==
    /\ i \in 1..Len(modelChanges)
    /\ modelChanges[i].pc = "resume"
    /\ modelChanges' = [modelChanges EXCEPT ![i].pc = "done"]
    /\ selectedModel' = modelChanges[i].model
    /\ UNCHANGED <<editorVars, lifecycleVars, now, autoComplete, isEnabled, completionCache, pendingEvents,
                   delivered, lastFlush, activeSessions, ops, netCalls, tracked, tracks,
                   ret, ticks, configModel, disposables, built>>

\* m31-agents.model is changed in the settings: the listeners of
\* AgentService and of ProviderManager run
ConfigModelChanges(model) ==
    /\ Len(modelChanges) < MaxModelChanges
    /\ model # configModel
    /\ modelChanges' = Append(modelChanges, ModelChange("config", model, "done"))
    /\ LET r == onModelConfigChanged(Tel, isEnabled, selectedModel, model, now)
       IN  /\ configModel' = model
           /\ selectedModel' = r.selectedModel
           /\ SetTel(r.tel)
    /\ providerManager' =
            onDidChangeConfiguration(providerManager, providerManager.settings, TRUE)
    /\ UNCHANGED <<diagnosticProvider, lifecycleVars, now, autoComplete, isEnabled, completionCache, activeSessions, ops,
                   netCalls, tracks, ret, ticks, disposables, built>>

\* AgentService.dispose() (lines 344-346)
DisposeAgentService ==
    /\ disposables' = <<>>
    /\ UNCHANGED <<editorVars, lifecycleVars, now, autoComplete, isEnabled, completionCache, pendingEvents,
                   delivered, lastFlush, activeSessions, ops, netCalls, tracked, tracks,
                   ret, ticks, configModel, selectedModel, modelChanges, built>>

NextModel ==
    \/ DisposeAgentService
    \/ \E model \in SetModelChoices : SetModel(model)
    \/ \E i \in 1..MaxModelChanges, ok \in BOOLEAN : ConfigUpdateLands(i, ok)
    \/ \E i \in 1..MaxModelChanges : SetModelResumes(i)
    \/ \E model \in ConfigModelChoices : ConfigModelChanges(model)
    \/ \E capability \in {"code_generation", "chat"}, modelId \in ModelIdParams :
            OneShot(capability, modelId, "none")
    \/ \E id \in 1..MaxOps, outcome \in ModelOutcomes : OneShotResolves(id, outcome, "none")
    \/ \E trigger \in {Trigger(JS, << <<"c", ".">> >>, 0, 2, <<>>)} :
            GetCompletion(trigger, "none")
    \/ \E id \in 1..MaxOps, outcome \in ModelOutcomes :
            CompletionResolves(id, outcome, "none")

SpecModel == Init /\ [][NextModel]_vars

----------------------------------------------------------------------------
(* SpecPrompt: buildCompletionRequest applied to documents, cursors and     *)
(* context settings                                                          *)

PromptDocuments ==
    {<< <<"a", "b">>, <<"c", "d">>, <<"e", "f">> >>,   \* three lines
     << <<>> >>}                                       \* the empty document

\* every cursor inside the document, with and without context
PromptTriggers ==
    {Trigger(JS, lines, line, character, context) :
        lines \in PromptDocuments, line \in 0..2, character \in 0..2,
        context \in {<<>>, <<"h">>}}

InitPrompt == Init /\ isEnabled

\* buildCompletionRequest called with the settings
\* codeCompletion.linesToContextBefore / linesToContextAfter
BuildCompletionRequest(trigger, linesToContextBefore, linesToContextAfter) ==
    /\ built.n < MaxBuilds
    /\ trigger.line < Len(trigger.lines)
    /\ trigger.character <= Len(LineAt(trigger, trigger.line))
    /\ built' = [n |-> built.n + 1, trigger |-> trigger,
                 linesToContextBefore |-> linesToContextBefore,
                 linesToContextAfter |-> linesToContextAfter,
                 request |-> buildCompletionRequest(trigger, LinePrefix(trigger),
                                                    linesToContextBefore,
                                                    linesToContextAfter, configModel),
                 contextAfter |-> ContextAfter(trigger, linesToContextAfter)]
    /\ UNCHANGED <<editorVars, lifecycleVars, now, autoComplete, isEnabled, completionCache, pendingEvents,
                   delivered, lastFlush, activeSessions, ops, netCalls, tracked, tracks,
                   ret, ticks, configModel, selectedModel, modelChanges, disposables>>

NextPrompt ==
    \E trigger \in PromptTriggers, before \in 0..MaxContextLines,
       after \in 0..MaxContextLines :
        BuildCompletionRequest(trigger, before, after)

SpecPrompt == InitPrompt /\ [][NextPrompt]_vars

----------------------------------------------------------------------------
(* SpecCacheKey: getCacheKey applied to languages, line prefixes and        *)
(* contexts                                                                 *)

MaxKeyCalls == 2

\* line prefixes as a document gives them: "a", "a:", "a:b"
KeyPrefixes == {<<"a">>, <<"a", ":">>, <<"a", ":", "b">>}

\* CONTEXT_KEY_CHARS characters "x", then tail
LongContext(tail) == [i \in 1..CONTEXT_KEY_CHARS |-> "x"] \o tail

\* contexts as getFileContext gives them: none, short ones with and without
\* ":", and two that differ after their first CONTEXT_KEY_CHARS characters
KeyContexts ==
    {<<>>, <<"b">>, <<"b", ":", "c">>, <<"c">>, <<":", "c">>,
     LongContext(<<"y">>), LongContext(<<"z">>)}

\* getCacheKey called as getCompletion calls it (line 66); built.keys holds
\* the arguments and the key of every call so far
GetCacheKeyCall(languageId, linePrefix, context) ==
    /\ built.n < MaxKeyCalls
    /\ built' = [n |-> built.n + 1,
                 keys |-> (IF built.n = 0 THEN <<>> ELSE built.keys)
                          \o <<[languageId |-> languageId, linePrefix |-> linePrefix,
                                context |-> context,
                                key |-> getCacheKey(languageId, linePrefix, context)]>>]
    /\ UNCHANGED <<editorVars, lifecycleVars, now, autoComplete, isEnabled, completionCache, pendingEvents,
                   delivered, lastFlush, activeSessions, ops, netCalls, tracked, tracks,
                   ret, ticks, configModel, selectedModel, modelChanges, disposables>>

NextCacheKey ==
    \E languageId \in {JS, PY}, linePrefix \in KeyPrefixes, context \in KeyContexts :
        GetCacheKeyCall(languageId, linePrefix, context)

SpecCacheKey == InitPrompt /\ [][NextCacheKey]_vars

----------------------------------------------------------------------------
(* SpecDiagnostics: the editor opens, changes and closes documents while    *)
(* the debounce timers of DiagnosticProvider run                            *)

MaxDocEvents == 3

\* a.ts with the text "data.x;" and with the empty text
DiagnosticDocuments ==
    {Document("file:///a.ts", "file", "typescript", 7, FALSE, 1),
     Document("file:///a.ts", "file", "typescript", 0, TRUE, 0),
     Document("file:///b.py", "file", "python", 0, TRUE, 0),
     Document("file:///c.ts", "file", "typescript", MAX_ANALYZED_LENGTH + 1, FALSE, 0),
     Document("untitled:d.ts", "untitled", "typescript", 7, FALSE, 1)}

\* onDidOpenTextDocument or onDidChangeTextDocument: the editor hands over
\* the TextDocument open for document.uri, which reads as document from now
\* on.  It is the object the provider was handed before while the uri stayed
\* open, and a new object when the uri is opened (again) or is seen for the
\* first time.  The listeners stay subscribed after dispose() (they are in
\* context.subscriptions, lines 52-64).
DocumentChanges(document, enabled) ==
    /\ diagnosticProvider.events < MaxDocEvents
    /\ LET dp == diagnosticProvider
           known == document.uri \in DOMAIN dp.opened
           object == IF known THEN dp.opened[document.uri] ELSE Len(dp.documents) + 1
           handed == [dp EXCEPT
                        !.documents = IF known
                                      THEN [dp.documents EXCEPT ![object] = document]
                                      ELSE Append(dp.documents, document),
                        !.opened = MapSet(dp.opened, document.uri, object)]
       IN  diagnosticProvider' =
                [onDocumentChange(handed, enabled, object) EXCEPT
                    !.events = dp.events + 1,
                    !.closed = dp.closed \ {document.uri}]
    /\ UNCHANGED <<modelVars, lifecycleVars, providerManager, now, autoComplete, isEnabled,
                   completionCache, pendingEvents, delivered, lastFlush, activeSessions,
                   ops, netCalls, tracked, tracks, ret, ticks>>

\* onDidCloseTextDocument for the document open as document.uri: the editor
\* lets go of the TextDocument, which keeps its last text
DocumentCloses(document) ==
    /\ diagnosticProvider.events < MaxDocEvents
    /\ diagnosticProvider' =
            [onDocumentClose(diagnosticProvider, document) EXCEPT
                !.opened = MapDelete(diagnosticProvider.opened, document.uri),
                !.events = diagnosticProvider.events + 1,
                !.closed = diagnosticProvider.closed \cup {document.uri}]
    /\ UNCHANGED <<modelVars, lifecycleVars, providerManager, now, autoComplete, isEnabled,
                   completionCache, pendingEvents, delivered, lastFlush, activeSessions,
                   ops, netCalls, tracked, tracks, ret, ticks>>

\* an armed timer fires
DebounceTimerFires(id, takes) ==
    /\ \E t \in diagnosticProvider.timers :
            /\ t.id = id
            /\ diagnosticProvider' = timerCallback(diagnosticProvider, t, takes)
    /\ UNCHANGED <<modelVars, lifecycleVars, providerManager, now, autoComplete, isEnabled,
                   completionCache, pendingEvents, delivered, lastFlush, activeSessions,
                   ops, netCalls, tracked, tracks, ret, ticks>>

\* DiagnosticProvider.dispose()
DisposeDiagnostics ==
    /\ diagnosticProvider' = disposeDiagnostics(diagnosticProvider)
    /\ UNCHANGED <<modelVars, lifecycleVars, providerManager, now, autoComplete, isEnabled,
                   completionCache, pendingEvents, delivered, lastFlush, activeSessions,
                   ops, netCalls, tracked, tracks, ret, ticks>>

NextDiagnostics ==
    \/ \E document \in DiagnosticDocuments, enabled \in BOOLEAN :
            DocumentChanges(document, enabled)
    \/ \E document \in DiagnosticDocuments : DocumentCloses(document)
    \/ \E id \in 1..MaxDocEvents, takes \in BOOLEAN : DebounceTimerFires(id, takes)
    \/ DisposeDiagnostics

SpecDiagnostics == InitPrompt /\ [][NextDiagnostics]_vars

----------------------------------------------------------------------------
(* SpecProviders: the user changes the settings while ProviderManager       *)
(* listens                                                                  *)

MaxConfigChanges == 3

SettingsChoices ==
    {Settings(enabled, << <<"javascript", TRUE>>, <<"typescript", typescript>> >>, formatter) :
        enabled \in BOOLEAN, typescript \in BOOLEAN, formatter \in {"prettier", "custom"}}

\* a configuration change; one that changes what the providers read
\* affects 'm31-agents', another one is in this section (affects) or not
ConfigurationChanges(newSettings, affects) ==
    /\ providerManager.changes < MaxConfigChanges
    /\ newSettings # providerManager.settings => affects
    /\ providerManager' =
            [onDidChangeConfiguration(providerManager, newSettings, affects) EXCEPT
                !.changes = providerManager.changes + 1]
    /\ UNCHANGED <<modelVars, lifecycleVars, diagnosticProvider, now, autoComplete, isEnabled,
                   completionCache, pendingEvents, delivered, lastFlush, activeSessions,
                   ops, netCalls, tracked, tracks, ret, ticks>>

\* ProviderManager.dispose
DisposeProviderManager ==
    /\ providerManager' = disposeProviders(providerManager)
    /\ diagnosticProvider' = disposeDiagnostics(diagnosticProvider)
    /\ UNCHANGED <<modelVars, lifecycleVars, now, autoComplete, isEnabled,
                   completionCache, pendingEvents, delivered, lastFlush, activeSessions,
                   ops, netCalls, tracked, tracks, ret, ticks>>

NextProviders ==
    \/ \E newSettings \in SettingsChoices, affects \in BOOLEAN :
            ConfigurationChanges(newSettings, affects)
    \/ DisposeProviderManager

SpecProviders == InitPrompt /\ [][NextProviders]_vars

----------------------------------------------------------------------------
(* Claims about the cache *)

CacheKeys(cache) == {cache[i].key : i \in 1..Len(cache)}

EntryOf(cache, key) == cache[CHOOSE i \in 1..Len(cache) : cache[i].key = key]

\* C1: a read of key k returns the stored value if and only if an entry for k
\* exists and now - timestamp < 60000; a read that finds an entry of age >=
\* 60000 returns nothing and removes the entry; every other read leaves the
\* cache as it was.
C1_GetFromCacheTtl ==
    [][(ret'.op = "get" /\ ret'.n = ret.n + 1) =>
        LET key == ret'.key
            live == \E i \in 1..Len(completionCache) :
                        /\ completionCache[i].key = key
                        /\ now - completionCache[i].timestamp < CACHE_TTL_MS
            stale == \E i \in 1..Len(completionCache) :
                        /\ completionCache[i].key = key
                        /\ now - completionCache[i].timestamp >= CACHE_TTL_MS
        IN  /\ ret'.value.some <=> live
            /\ live => ret'.value.val = EntryOf(completionCache, key).result
            /\ stale => /\ key \notin CacheKeys(completionCache')
                        /\ Len(completionCache') = Len(completionCache) - 1
            /\ ~stale => completionCache' = completionCache
      ]_vars

\* C1 witness: a read found an expired entry, returned nothing and removed it
C1_Witness ==
    /\ ret.op = "get"
    /\ ret.existed
    /\ ~ret.value.some
    /\ ret.key \notin CacheKeys(completionCache)

\* C2: a store that brings the cache to more than 100 entries removes exactly
\* 20 entries, none of them newer than an entry that stays, leaves 81, and a
\* read of a removed key returns nothing; a store that leaves at most 100
\* entries removes none.
C2_AddToCacheEviction ==
    [][(ret'.op = "put" /\ ret'.n = ret.n + 1) =>
        LET key == ret'.key
            before == CacheKeys(completionCache)
            after == CacheKeys(completionCache')
            removed == (before \cup {key}) \ after
            stamp(k) == IF k = key THEN now ELSE EntryOf(completionCache, k).timestamp
        IN  IF Cardinality(before \cup {key}) > CACHE_MAX_ENTRIES
            THEN /\ Cardinality(before \cup {key}) = CACHE_MAX_ENTRIES + 1
                 /\ Cardinality(removed) = CACHE_EVICT_COUNT
                 /\ Len(completionCache') = 81
                 /\ Cardinality(after) = 81
                 /\ \A r \in removed, k \in after : stamp(r) <= stamp(k)
                 /\ \A r \in removed :
                        ~getFromCache(completionCache', r, now').value.some
            ELSE /\ removed = {}
                 /\ after = before \cup {key}
      ]_vars

\* C2 witness: a store has just evicted, 81 entries are left
C2_Witness ==
    /\ ret.op = "put"
    /\ Len(completionCache) = 81

----------------------------------------------------------------------------
(* Claims about the telemetry buffer *)

FlushTookSnapshot == lastFlush'.n = lastFlush.n + 1

\* the buffer flush() found: pendingEvents, plus the event just pushed when
\* the flush was started by trackEvent
FlushSnapshot ==
    IF tracked' = tracked THEN pendingEvents
    ELSE Append(pendingEvents, tracked'[Len(tracked')])

\* C9: when the delivery step of flush fails, every event of the snapshot is
\* back at the head of the pending buffer afterwards.
C9_FailedFlushReenqueues ==
    [][(FlushTookSnapshot /\ lastFlush'.outcome = "failed") =>
        /\ Len(pendingEvents') >= Len(FlushSnapshot)
        /\ SubSeq(pendingEvents', 1, Len(FlushSnapshot)) = FlushSnapshot
      ]_vars

\* C10: a flush whose delivery succeeds leaves the pending buffer empty and
\* delivers one batch, which is exactly the sequence of events that was
\* pending when flush was called.
C10_FlushDeliversBuffer ==
    [][(FlushTookSnapshot /\ lastFlush'.outcome = "sent") =>
        /\ pendingEvents' = <<>>
        /\ Len(delivered') = Len(delivered) + 1
        /\ SubSeq(delivered', 1, Len(delivered)) = delivered
        /\ delivered'[Len(delivered')] = FlushSnapshot
        /\ FlushSnapshot # <<>>
      ]_vars

\* C10 witness: events were tracked, a flush delivered them, the buffer is empty
C10_Witness ==
    /\ tracks > 0
    /\ lastFlush.outcome = "sent"
    /\ pendingEvents = <<>>
    /\ delivered # <<>>
    /\ \E i \in 1..Len(delivered) : Len(delivered[i]) > 1

\* C11: a trackEvent call that is accepted with 19 or more events pending
\* runs flush inside the same call: flush takes the 20 events as its snapshot
\* and the buffer the next trackEvent finds holds none of them; a trackEvent
\* call that leaves fewer than 20 events pending appends its event and runs
\* no flush.
C11_BatchSizeFlushesInCall ==
    [][(tracks' = tracks + 1 /\ tracked' # tracked) =>
        IF Len(pendingEvents) + 1 >= EVENTS_BATCH_SIZE
        THEN /\ FlushTookSnapshot
             /\ Len(FlushSnapshot) = Len(pendingEvents) + 1
             /\ pendingEvents' = <<>>
        ELSE /\ lastFlush' = lastFlush
             /\ delivered' = delivered
             /\ pendingEvents' = Append(pendingEvents, tracked'[Len(tracked')])
      ]_vars

\* C11 witness: the 20th event started a flush and the 21st is alone in the
\* buffer
C11_Witness ==
    /\ Len(tracked) = EVENTS_BATCH_SIZE + 1
    /\ lastFlush.n = 1
    /\ pendingEvents = <<tracked[EVENTS_BATCH_SIZE + 1]>>

\* C12: while telemetry is disabled a call of trackEvent, trackException,
\* trackMetric or trackCommand leaves the pending buffer as it was, and no
\* flush takes a snapshot or delivers anything.
C12_DisabledTrackIsNoOp ==
    [][(~isEnabled /\ tracks' = tracks + 1) =>
        /\ pendingEvents' = pendingEvents
        /\ tracked' = tracked
        /\ delivered' = delivered
        /\ lastFlush' = lastFlush
      ]_vars

\* C12 witness: tracking calls were made while disabled with 19 events
\* pending, and the 19 are all the buffer ever accepted
C12_Witness ==
    /\ ~isEnabled
    /\ tracks > 0
    /\ Len(pendingEvents) = EVENTS_BATCH_SIZE - 1
    /\ tracked = pendingEvents
    /\ delivered = <<>>

\* C20: the timestamps of the pending buffer never decrease from one event
\* to the next.
C20_PendingTimestampsMonotonic ==
    \A i, j \in 1..Len(pendingEvents) :
        i < j => pendingEvents[i].timestamp <= pendingEvents[j].timestamp

----------------------------------------------------------------------------
(* Claims about the orchestrator *)

OpIds == 1..Len(ops)

\* the events the pending buffer accepted from operation id
EventsOf(id) == {i \in 1..Len(tracked) : tracked[i].op = id}

CallsOf(id) == {i \in 1..Len(netCalls) : netCalls[i].op = id}

\* C3: a trigger issued while completions are enabled, after an identical
\* trigger whose network call succeeded and within the TTL window of it, makes
\* no network call, returns the first one's text and emits its event with
\* fromCache = true.
C3_SecondTriggerFromCache ==
    [][\A i \in OpIds :
        LET j == Len(ops) + 1
        IN  (/\ Len(ops') = j
             /\ autoComplete
             /\ ops[i].pc = "done" /\ ops[i].api = "ok"
             /\ ops'[j].key = ops[i].key
             /\ now - ops[i].startTime < CACHE_TTL_MS
             /\ \A k \in OpIds : ops[k].key = ops[i].key =>
                    ops[k].pc = "done" /\ ops[k].result = ops[i].result)
            => /\ netCalls' = netCalls
               /\ ops'[j].pc = "done"
               /\ ops'[j].result = ops[i].result
               /\ isEnabled =>
                    /\ Len(tracked') = Len(tracked) + 1
                    /\ tracked'[Len(tracked')].fromCache
      ]_vars

\* C4: a completion trigger with an empty or whitespace-only line prefix
\* returns nothing, makes no network call and has no event accepted by the
\* pending buffer, through getCompletion and through getCodeCompletion.
C4_BlankPrefixIsSilent ==
    \A id \in OpIds :
        ops[id].path = "blank" =>
            /\ ~ops[id].result.some
            /\ CallsOf(id) = {}
            /\ EventsOf(id) = {}

\* C5: a completion trigger while auto-completion is disabled returns nothing,
\* makes no network call and produces no telemetry event, through
\* getCompletion and through getCodeCompletion.
C5_DisabledIsSilent ==
    \A id \in OpIds :
        ops[id].path = "disabled" =>
            /\ ~ops[id].result.some
            /\ CallsOf(id) = {}
            /\ EventsOf(id) = {}

\* C6: with telemetry enabled, a completion request whose network call failed
\* has returned nothing and has had an event with success = false accepted by
\* the pending buffer.
C6_FailureIsTracked ==
    \A id \in OpIds :
        (/\ isEnabled
         /\ ops[id].kind \in {"completion", "agentCompletion"}
         /\ ops[id].pc = "done"
         /\ ops[id].api \in {"error", "throw"})
        => /\ ~ops[id].result.some
           /\ \E i \in EventsOf(id) : ~tracked[i].success

\* C7: with telemetry enabled, every operation that made a network call and
\* has finished had exactly one event accepted by the pending buffer.
C7_OneEventPerNetworkCall ==
    \A id \in OpIds :
        (isEnabled /\ ops[id].pc = "done" /\ CallsOf(id) # {})
        => Cardinality(EventsOf(id)) = 1

\* C8: no two network calls for the same cache key are in flight at once.
C8_NoDuplicateInFlight ==
    \A i, j \in OpIds :
        (/\ i # j
         /\ ops[i].pc = "awaitApi" /\ ops[j].pc = "awaitApi"
         /\ ops[i].kind # "oneShot" /\ ops[j].kind # "oneShot")
        => ops[i].key # ops[j].key

\* a live entry: one that exists and is younger than the TTL
LiveEntry(cache, key, clock) ==
    \E i \in 1..Len(cache) :
        cache[i].key = key /\ clock - cache[i].timestamp < CACHE_TTL_MS

\* the step accepted exactly one event, which is the last of tracked'
OneEventAccepted ==
    /\ Len(tracked') = Len(tracked) + 1
    /\ SubSeq(tracked', 1, Len(tracked)) = tracked

\* C13: a getCompletion call that gets as far as the cache while a live entry
\* exists for its key returns that entry's text, makes no network call,
\* leaves the cache as it was and, with telemetry enabled, has exactly one
\* event accepted: CODE_COMPLETED with fromCache = true and tokensUsed = 0.
C13_CacheHitServesCached ==
    [][LET j == Len(ops) + 1
       IN  (/\ Len(ops') = j
            /\ ops'[j].path \in {"hit", "miss"}
            /\ LiveEntry(completionCache, ops'[j].key, now))
           => /\ ops'[j].path = "hit"
              /\ ops'[j].settled = "resolved"
              /\ ops'[j].result = Some(EntryOf(completionCache, ops'[j].key).result)
              /\ netCalls' = netCalls
              /\ completionCache' = completionCache
              /\ isEnabled =>
                    /\ OneEventAccepted
                    /\ tracked'[Len(tracked')].type = "code_completed"
                    /\ tracked'[Len(tracked')].fromCache
                    /\ tracked'[Len(tracked')].tokensUsed = 0
                    /\ tracked'[Len(tracked')].op = j
      ]_vars

\* C14: when the network call of a getCompletion call resolves with a success
\* result, the cache afterwards holds the response's text under the call's
\* key with timestamp now, the call returns that text, a cache read of the
\* key right afterwards returns it, and with telemetry enabled exactly one
\* event is accepted: CODE_COMPLETED with fromCache = false, the duration
\* since the call started and the response's token count.
C14_MissSuccessStores ==
    [][\A id \in OpIds :
        (ops[id].api = "pending" /\ ops'[id].api = "ok")
        => /\ ops'[id].result = Some(ops'[id].text)
           /\ ops'[id].settled = "resolved"
           /\ CacheHas(completionCache', ops[id].key)
           /\ EntryOf(completionCache', ops[id].key) =
                  [key |-> ops[id].key, result |-> ops'[id].text, timestamp |-> now]
           /\ getFromCache(completionCache', ops[id].key, now').value = Some(ops'[id].text)
           /\ isEnabled =>
                 /\ OneEventAccepted
                 /\ tracked'[Len(tracked')].type = "code_completed"
                 /\ ~tracked'[Len(tracked')].fromCache
                 /\ tracked'[Len(tracked')].success
                 /\ tracked'[Len(tracked')].tokensUsed = ops'[id].tokens
                 /\ tracked'[Len(tracked')].duration = now - ops[id].startTime
                 /\ tracked'[Len(tracked')].op = id
      ]_vars

\* C14 witness: a call missed the cache, its network call succeeded some time
\* later with tokens counted, the text is cached and returned and the event
\* with fromCache = false is tracked
C14_Witness ==
    \E id \in OpIds :
        /\ ops[id].api = "ok"
        /\ ops[id].path = "miss"
        /\ ops[id].result = Some(<<"r">>)
        /\ LiveEntry(completionCache, ops[id].key, now)
        /\ EntryOf(completionCache, ops[id].key).result = <<"r">>
        /\ \E i \in EventsOf(id) :
              /\ ~tracked[i].fromCache
              /\ tracked[i].tokensUsed = 7
              /\ tracked[i].duration = CACHE_TTL_MS

\* C15: the promise of a getCompletion call is never rejected; once the call
\* is over the promise is resolved, and it is resolved with nothing whenever
\* the API call brought an error result or a rejection or something threw
\* inside getCompletion.
C15_GetCompletionNeverRejects ==
    \A id \in OpIds :
        ops[id].kind = "completion" =>
            /\ ops[id].settled # "rejected"
            /\ ops[id].pc = "done" => ops[id].settled = "resolved"
            /\ (ops[id].api \in {"error", "throw"} \/ ops[id].path = "threw")
                  => (ops[id].settled = "resolved" /\ ~ops[id].result.some)

\* C16: the promise of a one-shot operation is never rejected; once the
\* operation is over it is resolved: with success = false and the error when
\* the API call brought an error result or a rejection, and with
\* success = true and the payload of the response when the API call brought
\* a success result.
C16_OneShotNeverThrows ==
    \A id \in OpIds :
        ops[id].kind = "oneShot" =>
            /\ ops[id].settled # "rejected"
            /\ ops[id].pc = "done" =>
                  /\ ops[id].settled = "resolved"
                  /\ ops[id].api \in {"error", "throw"} =>
                        (~ops[id].success /\ ops[id].error # "none")
                  /\ ops[id].api \in {"ok", "malformed"} =>
                        /\ ops[id].success
                        /\ ops[id].error = "none"
                        /\ ops[id].result = Some(ops[id].text)

\* C17: with telemetry enabled, a one-shot operation in flight has its
\* session record and no event yet, and a finished one has had exactly one
\* event accepted: FEATURE_USED with the operation's capability as feature
\* and the success flag the operation returned.
C17_OneFeatureEventPerOneShot ==
    isEnabled =>
        \A id \in OpIds :
            ops[id].kind = "oneShot" =>
                IF ops[id].pc = "done"
                THEN /\ Cardinality(EventsOf(id)) = 1
                     /\ \A i \in EventsOf(id) :
                           /\ tracked[i].type = "feature_used"
                           /\ tracked[i].feature = ops[id].capability
                           /\ tracked[i].success = ops[id].success
                ELSE /\ ops[id].sessionId \in DOMAIN activeSessions
                     /\ EventsOf(id) = {}

\* the text after the cursor inside the window, lines joined by "\n": what
\* buildCompletionRequest collects in contextAfter, without its last "\n"
WindowAfter(contextAfter) ==
    IF contextAfter = <<>> THEN <<>>
    ELSE SubSeq(contextAfter, 1, Len(contextAfter) - 1)

\* C19: the prompt of a built request is the context header (when there is a
\* context), the lines from max(0, cursorLine - linesBefore) up to the cursor
\* line, the cursor line up to the cursor column, and then the rest of the
\* cursor line and the lines down to min(lastLine, cursorLine + linesAfter).
C19_PromptHasWindowAroundCursor ==
    built.n > 0 =>
        LET t == built.trigger
            startLine == Max(0, t.line - built.linesToContextBefore)
            header == IF t.context # <<>> THEN t.context \o NewLine \o NewLine
                      ELSE <<>>
        IN  built.request.prompt =
                header \o LinesText(t, startLine, t.line - 1) \o LinePrefix(t)
                       \o WindowAfter(built.contextAfter)

\* the process-wide current model: what m31-agents.model holds
CurrentModel == configModel

\* C18: no step changes a request that was sent, whatever happens to the
\* model selection meanwhile, and every request is built with the model that
\* is current at that moment.
C18_RequestCarriesCurrentModel ==
    [][/\ Len(netCalls') >= Len(netCalls)
       /\ SubSeq(netCalls', 1, Len(netCalls)) = netCalls
       /\ Len(netCalls') > Len(netCalls) =>
             /\ Len(netCalls') = Len(netCalls) + 1
             /\ netCalls'[Len(netCalls')].model = CurrentModel
      ]_vars

----------------------------------------------------------------------------
(* Delivery order, session identity and the shutdown paths *)

RECURSIVE Flatten(_)
Flatten(batches) ==
    IF batches = <<>> THEN <<>> ELSE Head(batches) \o Flatten(Tail(batches))

\* the delivered events, first delivered first
DeliveredEvents == Flatten(delivered)

\* where in the delivery order the q-th accepted event stands (0: nowhere)
DeliveryPosition(q) ==
    IF \E k \in 1..Len(DeliveredEvents) : DeliveredEvents[k].seq = q
    THEN CHOOSE k \in 1..Len(DeliveredEvents) : DeliveredEvents[k].seq = q
    ELSE 0

\* C21: events are delivered in enqueue order: when event a was tracked
\* before event b and b has been delivered, a was delivered in an earlier
\* batch or earlier in the same batch.
C21_DeliveredInEnqueueOrder ==
    \A a, b \in 1..Len(tracked) :
        (a < b /\ DeliveryPosition(b) > 0) =>
            (DeliveryPosition(a) > 0 /\ DeliveryPosition(a) < DeliveryPosition(b))

\* C22: every event in the pending buffer carries the sessionId that
\* TelemetryService generated at construction, whatever sessionId the caller
\* put in the event and however often the API client replaced its own.
C22_PendingCarryTelemetrySession ==
    \A i \in 1..Len(pendingEvents) :
        /\ pendingEvents[i].sessionId = TelemetrySessionId
        /\ pendingEvents[i].sessionId # ApiSessionId

\* C22 witness: an event the caller sent with the replaced API session id
\* waits in the buffer
C22_Witness ==
    /\ apiSession # <<>>
    /\ ApiSessionId # ApiSessionIds[1]
    /\ \E i \in 1..Len(pendingEvents) :
          /\ pendingEvents[i].seq > apiSession[Len(apiSession)]
          /\ pendingEvents[i].type = "command_executed"
          /\ pendingEvents[i].sessionId = TelemetrySessionId

\* C23: with a fair flush timer every event in the pending buffer is
\* eventually taken by a flush, in every reachable state, also after
\* telemetry was disabled and after dispose() was called: a buffer that
\* holds events is empty again later on.
C23_BufferedEventuallyFlushed == (pendingEvents # <<>>) ~> (pendingEvents = <<>>)

\* a step that is a call of deactivate(), trackExtensionDeactivation() or dispose()
ShutdownStep == shutdown'.n = shutdown.n + 1

\* C24: when deactivate(), trackExtensionDeactivation() or dispose() returns
\* with telemetry enabled, the buffer is empty and a flush has taken every
\* event that was pending, followed (for the two deactivation calls) by the
\* EXTENSION_DEACTIVATED event (what is delivered, if the delivery succeeds,
\* is exactly that batch); dispose() leaves the timer stopped, and once
\* dispose() was called the timer callback does not run again.
C24_ShutdownFlushes ==
    [][/\ (ShutdownStep /\ isEnabled) =>
            /\ pendingEvents' = <<>>
            /\ IF shutdown'.op = "dispose"
               THEN /\ tracked' = tracked
                    /\ ~flushInterval'
                    /\ pendingEvents # <<>> =>
                          /\ FlushTookSnapshot
                          /\ lastFlush'.outcome = "sent" =>
                                delivered' = Append(delivered, pendingEvents)
               ELSE /\ Len(tracked') = Len(tracked) + 1
                    /\ tracked'[Len(tracked')].type = "extension_deactivated"
                    /\ FlushTookSnapshot
                    /\ delivered' # delivered =>
                          delivered' = Append(delivered,
                                              Append(pendingEvents, tracked'[Len(tracked')]))
       /\ shutdown.disposed => (~flushInterval' /\ ~timerFired')
      ]_vars

\* C25: a delivery failure inside flush is not raised: the promise of a
\* flush() whose delivery fails resolves, and a trackEvent call whose
\* size-triggered flush fails returns with its event accepted.
C25_FlushFailureNotRaised ==
    [][/\ lastFlush'.settled # "rejected"
       /\ (FlushTookSnapshot /\ lastFlush'.outcome = "failed") =>
            /\ lastFlush'.settled = "resolved"
            /\ tracks' = tracks + 1 =>
                  /\ Len(tracked') = Len(tracked) + 1
                  /\ SubSeq(tracked', 1, Len(tracked)) = tracked
                  /\ tracked'[Len(tracked')].seq = Len(tracked')
      ]_vars

----------------------------------------------------------------------------
(* Requests in flight together, and the cache under stores *)

\* the requests that could make request id stale: issued after it, or in
\* flight for the same key
Overlapping(id) ==
    {j \in OpIds \ {id} : j > id \/ (ops[j].key = ops[id].key /\ ops[j].api = "pending")}

\* C26: nothing cancels a request: when the network call of a request
\* succeeds after later requests were issued (resolved or not) or while
\* another request for its key is in flight, it still stores its text under
\* its own key, returns it and has its CODE_COMPLETED event accepted; the
\* entry of the key then holds this text, whatever an earlier resolver stored,
\* and the other requests go on as they were.
C26_NoCancellation ==
    [][\A id \in OpIds :
        (ops[id].api = "pending" /\ ops'[id].api = "ok" /\ Overlapping(id) # {})
        => /\ CacheHas(completionCache', ops[id].key)
           /\ EntryOf(completionCache', ops[id].key) =
                  [key |-> ops[id].key, result |-> ops'[id].text, timestamp |-> now]
           /\ \A key \in CacheKeys(completionCache) \ {ops[id].key} :
                  /\ CacheHas(completionCache', key)
                  /\ EntryOf(completionCache', key) = EntryOf(completionCache, key)
           /\ ops'[id].result = Some(ops'[id].text)
           /\ \A j \in OpIds \ {id} : ops'[j] = ops[j]
           /\ isEnabled =>
                 /\ OneEventAccepted
                 /\ tracked'[Len(tracked')].type = "code_completed"
                 /\ tracked'[Len(tracked')].op = id
      ]_vars

\* C26 witness: two requests for one key were in flight together; the later
\* one resolved first with "", the earlier one resolved last with "r", and
\* the cache holds "r"
C26_Witness ==
    /\ Len(ops) = 2
    /\ ops[1].key = ops[2].key
    /\ ops[1].api = "ok" /\ ops[1].text = <<"r">>
    /\ ops[2].api = "ok" /\ ops[2].text = <<>>
    /\ EntryOf(completionCache, ops[1].key).result = <<"r">>
    /\ isEnabled
    /\ \E i \in EventsOf(2), k \in EventsOf(1) : i < k

\* C27: between addToCache calls the completion cache holds at most 100
\* entries.
C27_CacheAtMostMaxEntries == Len(completionCache) <= CACHE_MAX_ENTRIES

\* C27 witness: a store of a new key into a cache of 100 entries evicted, and
\* the next store of a new key added to what was left
C27_Witness ==
    /\ ret.op = "put"
    /\ ret.n = 2
    /\ ~ret.existed
    /\ Len(completionCache) = CACHE_MAX_ENTRIES + 1 - CACHE_EVICT_COUNT + 1

\* C28: addToCache on a key that has an entry replaces the entry's value and
\* sets its timestamp to now; the number of entries and every other entry
\* stay as they were, no key ever has two entries, and a read of the key
\* finds the new value until the TTL counted from this store has run out.
C28_RestoreReplacesEntry ==
    [][/\ Cardinality(CacheKeys(completionCache')) = Len(completionCache')
       /\ (ret'.op = "put" /\ ret'.n = ret.n + 1 /\ ret'.existed) =>
            /\ Len(completionCache') = Len(completionCache)
            /\ \A i \in 1..Len(completionCache) :
                  completionCache'[i] =
                      IF completionCache[i].key = ret'.key
                      THEN [key |-> ret'.key, result |-> ret'.value.val, timestamp |-> now]
                      ELSE completionCache[i]
            /\ getFromCache(completionCache', ret'.key, now + CACHE_TTL_MS - 1).value
                  = ret'.value
            /\ ~getFromCache(completionCache', ret'.key, now + CACHE_TTL_MS).value.some
      ]_vars

\* C28 witness: a key stored before the clock moved was stored again with a
\* new value: one entry, the new value, the new timestamp, 100 entries as before
C28_Witness ==
    /\ ret.op = "put"
    /\ ret.existed
    /\ now > StartTime
    /\ Len(completionCache) = CACHE_MAX_ENTRIES
    /\ EntryOf(completionCache, ret.key) =
           [key |-> ret.key, result |-> <<"s">>, timestamp |-> now]

\* the requests for key whose network call has failed
FailedFor(key) ==
    {i \in OpIds : ops[i].key = key /\ ops[i].path = "miss"
                    /\ ops[i].api \in {"error", "throw"}}

\* C29: a request whose network call fails leaves the cache as it was when
\* the call resolved and returns nothing; every cache entry holds the text of
\* a request for its key whose network call succeeded; and a trigger for a
\* key that has failed and has no entry goes to the network again.
C29_FailureLeavesCache ==
    [][/\ \A id \in OpIds :
            (ops[id].api = "pending" /\ ops'[id].api \in {"error", "throw"})
            => /\ completionCache' = completionCache
               /\ ops'[id].result = None
       /\ \A i \in 1..Len(completionCache') :
            \E id \in 1..Len(ops') :
                /\ ops'[id].api = "ok"
                /\ ops'[id].key = completionCache'[i].key
                /\ ops'[id].text = completionCache'[i].result
       /\ LET j == Len(ops) + 1
          IN  (/\ Len(ops') = j
               /\ ops'[j].path \in {"hit", "miss"}
               /\ FailedFor(ops'[j].key) # {}
               /\ ~CacheHas(completionCache, ops'[j].key))
              => /\ ops'[j].path = "miss"
                 /\ Len(netCalls') = Len(netCalls) + 1
                 /\ netCalls'[Len(netCalls')].op = j
                 /\ netCalls'[Len(netCalls')].key = ops'[j].key
      ]_vars

\* C29 witness: the network call of a request failed, the cache has no entry
\* for its key, and the next trigger for the key is on the network
C29_Witness ==
    /\ Len(ops) = 2
    /\ ops[1].key = ops[2].key
    /\ ops[1].path = "miss" /\ ops[1].api \in {"error", "throw"}
    /\ ops[1].result = None
    /\ ops[2].path = "miss" /\ ops[2].api = "pending"
    /\ ~CacheHas(completionCache, ops[1].key)
    /\ Cardinality({i \in 1..Len(netCalls) : netCalls[i].key = ops[1].key}) = 2

----------------------------------------------------------------------------
(* Snapshots of flush *)

\* C30: flush takes its snapshot and clears the buffer in one step, so while
\* no delivery has failed every tracked event is in exactly one place: the
\* delivered batches followed by the pending buffer are the tracked events,
\* each once, in the order they were accepted.  No event is in two batches
\* and none is lost between two snapshots.
C30_EachEventInOneSnapshot ==
    (lastFlush.n = Len(delivered)) =>
        /\ DeliveredEvents \o pendingEvents = tracked
        /\ \A i \in 1..Len(tracked) : tracked[i].seq = i
        /\ \A i \in 1..Len(delivered) : delivered[i] # <<>>

\* C30 witness: two flushes delivered a batch each, the first one started by
\* the batch size, and a later event waits in the buffer
C30_Witness ==
    /\ lastFlush.n = 2
    /\ Len(delivered) = 2
    /\ Len(delivered[1]) = EVENTS_BATCH_SIZE
    /\ Len(pendingEvents) = 1
    /\ tracks > 0

----------------------------------------------------------------------------
(* The size of the pending buffer, and disabling *)

\* C31: between calls the pending buffer holds fewer than 20 events, in
\* every state reachable through trackEvent, flush, enable and disable (and
\* the timer and shutdown calls).
C31_PendingBelowBatchSize == Len(pendingEvents) < EVENTS_BATCH_SIZE

\* C31 witness: trackEvent found 19 events pending, and returned with the
\* buffer empty and the 20 events delivered
C31_Witness ==
    /\ tracks = 1
    /\ Len(tracked) = EVENTS_BATCH_SIZE
    /\ tracked[EVENTS_BATCH_SIZE].type = "command_executed"
    /\ shutdown.n = 0
    /\ pendingEvents = <<>>
    /\ delivered = <<tracked>>

\* C32: events buffered before a disable survive it: no step taken while
\* telemetry is disabled (a timer flush, a shutdown call, a trackEvent) takes
\* a snapshot, delivers anything or changes the buffer; and a flush that is
\* called on its own once telemetry is enabled and delivers, delivers
\* exactly the buffer it found, in order, and leaves it empty.
C32_DisabledKeepsBuffer ==
    [][/\ ~isEnabled =>
            /\ pendingEvents' = pendingEvents
            /\ delivered' = delivered
            /\ lastFlush'.n = lastFlush.n
       /\ (isEnabled /\ tracked' = tracked /\ delivered' # delivered) =>
            /\ delivered' = Append(delivered, pendingEvents)
            /\ pendingEvents' = <<>>
      ]_vars

\* C32 witness: 19 events sat in the buffer through a disabled spell in
\* which the timer fired and deactivate() ran; after enable the timer flush
\* delivered the 19 as one batch
C32_Witness ==
    /\ isEnabled
    /\ timerFired
    /\ shutdown.op = "deactivate"
    /\ Len(tracked) = EVENTS_BATCH_SIZE - 1
    /\ delivered = <<tracked>>
    /\ pendingEvents = <<>>

----------------------------------------------------------------------------
(* The session records of AgentService *)

\* the AgentService operations that have started and not returned
InFlight == {id \in OpIds : ops[id].kind \in {"oneShot", "agentCompletion"}
                             /\ ops[id].pc # "done"}

\* C33: activeSessions holds exactly one record per operation in flight:
\* every operation in flight has its record, two operations in flight have
\* two records, and there is no record without an operation; with no
\* operation in flight the map is empty.
C33_OneSessionPerOperation ==
    /\ \A id \in InFlight : ops[id].sessionId \in DOMAIN activeSessions
    /\ \A id, other \in InFlight : id # other => ops[id].sessionId # ops[other].sessionId
    /\ Cardinality(DOMAIN activeSessions) = Cardinality(InFlight)

\* C34: the modelId of the FEATURE_USED event of an operation equals the
\* model its request carried, whatever happened to the selected model while
\* the operation was in flight.
C34_EventModelIsRequestModel ==
    \A id \in OpIds : \A e \in EventsOf(id), c \in CallsOf(id) :
        (ops[id].kind = "oneShot" /\ tracked[e].type = "feature_used")
            => tracked[e].modelId = netCalls[c].model

----------------------------------------------------------------------------
(* The cache key *)

\* the calls of getCacheKey so far
KeyCalls == IF built.n = 0 \/ "keys" \notin DOMAIN built THEN <<>> ELSE built.keys

\* C35: getCacheKey is injective on (languageId, line prefix, first 50
\* characters of context): two calls give the same key only if they agree on
\* all three.
C35_CacheKeyInjective ==
    \A i, j \in 1..Len(KeyCalls) :
        KeyCalls[i].key = KeyCalls[j].key
            => /\ KeyCalls[i].languageId = KeyCalls[j].languageId
               /\ KeyCalls[i].linePrefix = KeyCalls[j].linePrefix
               /\ Substring0(KeyCalls[i].context, CONTEXT_KEY_CHARS)
                      = Substring0(KeyCalls[j].context, CONTEXT_KEY_CHARS)

----------------------------------------------------------------------------
(* The cache and the clock *)

\* C36: the entry an addToCache call stores is not among the entries the same
\* call evicts: a read of the key right after the store returns the stored
\* value, however the clock moved before the store.
C36_StoredEntrySurvives ==
    [][(ret'.op = "put" /\ ret'.n = ret.n + 1) =>
        /\ CacheHas(completionCache', ret'.key)
        /\ getFromCache(completionCache', ret'.key, now).value = ret'.value
      ]_vars

----------------------------------------------------------------------------
(* The debounce timers of DiagnosticProvider *)

\* the timers armed for uri
TimersFor(uri) == {t \in diagnosticProvider.timers : t.uri = uri}

\* every document has at most one timer armed
OneTimerPerDocument ==
    \A document \in DiagnosticDocuments : Cardinality(TimersFor(document.uri)) <= 1

\* C37: every document has at most one debounce timer armed, and a closed
\* document has none: no analysis runs for it and it has no diagnostics until
\* it is opened or changed again.
C37_CloseCancelsTimer ==
    /\ OneTimerPerDocument
    /\ \A uri \in diagnosticProvider.closed :
            /\ TimersFor(uri) = {}
            /\ uri \notin DOMAIN diagnosticProvider.collection
    /\ \A i \in 1..Len(diagnosticProvider.ran) : ~diagnosticProvider.ran[i].closed

----------------------------------------------------------------------------
(* The providers registered by ProviderManager *)

\* the providers the settings call for
WantedProviders(settings) ==
    {[kind |-> "completion", language |-> settings.languages[i][1]] :
        i \in {j \in 1..Len(settings.languages) :
                  settings.enabled /\ settings.languages[j][2]}}
    \cup (IF settings.formatter = "custom"
          THEN {[kind |-> "formatting", language |-> "*"]}
          ELSE {})

\* the provider registrations the editor holds
LiveProviders == {d \in providerManager.live : d.kind # "configListener"}

\* C38: until dispose(), the completion and formatting providers registered
\* with the editor are exactly those the current settings call for, each
\* registered once, after any number of configuration changes.
C38_ProvidersFollowSettings ==
    ~providerManager.disposed =>
        /\ {[kind |-> d.kind, language |-> d.language] : d \in LiveProviders}
              = WantedProviders(providerManager.settings)
        /\ Cardinality(LiveProviders)
              = Cardinality(WantedProviders(providerManager.settings))

====
